---- MODULE Spec2Model ----
(***************************************************************************)
(* State-machine model of KibakoEngine's SpriteBatch2D (release build:      *)
(* KBK_ASSERT expands to nothing, Debug.h:44).                              *)
(*                                                                          *)
(* Floats of a clip rect are represented in half pixels (an integer h       *)
(* stands for the float h/2), so that the float -> LONG conversion of the   *)
(* scissor rectangle truncates.  A vertex array is represented by its       *)
(* element count and one representative vertex (a position and the rest of  *)
(* the vertex: uv and color), an index array by its element count and one   *)
(* representative index; every element of an array is treated alike.  The  *)
(* six indices of a sprite are kept one by one.                             *)
(***************************************************************************)
EXTENDS Integers, Sequences, FiniteSets, TLC

\* ---- bounds of the exploration ----
MaxCalls == 3
MaxFrames == 2
MaxEnds == 2

\* ---- program constants ----
SpriteVertexCount == 4
SpriteIndexCount == 6
VertexBaseline == 1024
IndexBaseline == 2048
InitVertexCount == 256 * 4
InitIndexCount == 256 * 6

Null == "Null"
NoSRV == 0

\* Texture2D objects known to the callers.  "A2" is a copy of "A" (Texture2D
\* is copyable and its ComPtr members are shared), "Bad" was never loaded.
Textures == {"A", "A2", "B", "Bad", "White"}

\* Addresses of the shader resource views: the order of the addresses is
\* decided by the allocator, and the creation of the white texture may fail.
SrvTables ==
    { [A |-> 1, A2 |-> 1, B |-> 2, Bad |-> NoSRV, White |-> 3],
      [A |-> 2, A2 |-> 2, B |-> 1, Bad |-> NoSRV, White |-> 3],
      [A |-> 1, A2 |-> 1, B |-> 2, Bad |-> NoSRV, White |-> NoSRV] }

NoRect == [x |-> 0, y |-> 0, w |-> 0, h |-> 0]

\* Arguments of Push (texture, layer); dst/src/color/rotation are carried by
\* the id of the call.
SpriteInputs ==
    { [texture |-> "A", layer |-> 0], [texture |-> "B", layer |-> 0],
      [texture |-> "A2", layer |-> 0], [texture |-> "Bad", layer |-> 0] }

\* Arguments of PushGeometryRaw.
GeometryInputs ==
    { [texture |-> Null, layer |-> 1, clipRect |-> [x |-> 0, y |-> 0, w |-> 4, h |-> 0],
       vertexCount |-> 4, indexCount |-> 6],
      [texture |-> Null, layer |-> 1, clipRect |-> [x |-> 0, y |-> 0, w |-> 5, h |-> 4],
       vertexCount |-> 4, indexCount |-> 6],
      [texture |-> Null, layer |-> 1, clipRect |-> [x |-> 1, y |-> 0, w |-> 4, h |-> 4],
       vertexCount |-> 4, indexCount |-> 6],
      [texture |-> "A", layer |-> 0, clipRect |-> NoRect,
       vertexCount |-> 3, indexCount |-> 4],
      [texture |-> "B", layer |-> 1, clipRect |-> NoRect,
       vertexCount |-> 1100, indexCount |-> 2100] }

\* Arguments of PushGeometryView.
ViewInputs ==
    { [texture |-> "A", layer |-> 0, clipRect |-> NoRect,
       vertexCount |-> 4, indexCount |-> 6, translation |-> 0],
      [texture |-> Null, layer |-> 1, clipRect |-> NoRect,
       vertexCount |-> 4, indexCount |-> 6, translation |-> 3] }

\* Contents the caller gives to its vertex and index arrays.
CallerContents ==
    << [vertices |-> [pos |-> 2, attr |-> 1], indices |-> 0],
       [vertices |-> [pos |-> 5, attr |-> 2], indices |-> 1],
       [vertices |-> [pos |-> 2, attr |-> 1], indices |-> 4] >>

VARIABLES
    phase,               \* "constructed", "ready", "failed", "shutdown"
    srv,                 \* Texture2D::m_srv of every texture object
    m_isDrawing,
    m_commands,
    m_geometryCommands,
    m_unifiedCommands,
    m_drawRanges,
    m_vertexScratch,     \* layout of m_vertexScratch / m_indexScratch
    m_vertexCapacity,
    m_indexCapacity,
    m_vertexBuffer,      \* element count of the allocated buffer, 0 = none
    m_indexBuffer,
    m_stats,
    m_viewProjT,
    cbViewProjT,         \* contents of the constant buffer m_cbVS
    gpuDraws,            \* DrawIndexed calls issued by the latest End
    endResult,           \* how the latest End returned
    callerArrays,        \* contents of the caller's vertex and index arrays
    calls,               \* calls made on the batch so far
    ends,                \* End calls made so far
    frames,              \* Begin calls made so far
    rejected,            \* ids of the submission calls made outside a frame
    lastOp,
    m_duration,          \* CountdownTimer, times in ticks
    m_remaining,
    m_running,
    m_finished,
    pc,                  \* Application::Run: the statement it is about to execute
    m_layers,            \* Application::m_layers
    breakRequested,      \* the flag behind Has/ConsumeBreakpointRequest
    g_time,              \* GameServices: the GameTime record, times in ticks
    accumulator,         \* locals of Application::Run
    subSteps,
    frameLog,            \* calls made by the current iteration of Run
    m_nextID,            \* Scene2D
    m_entities,
    m_entityIndex,
    m_sprites,           \* a ComponentStore
    sceneArg,            \* argument of the latest Scene2D / ComponentStore call
    renderCalls          \* calls on the batch made by the latest Scene2D::Render

vars == << phase, srv, m_isDrawing, m_commands, m_geometryCommands,
           m_unifiedCommands, m_drawRanges, m_vertexScratch,
           m_vertexCapacity, m_indexCapacity, m_vertexBuffer, m_indexBuffer,
           m_stats, m_viewProjT, cbViewProjT, gpuDraws, endResult,
           calls, ends, frames, rejected, lastOp, callerArrays,
           m_duration, m_remaining, m_running, m_finished,
           pc, m_layers, breakRequested, g_time, accumulator, subSteps,
           frameLog,
           m_nextID, m_entities, m_entityIndex, m_sprites, sceneArg,
           renderCalls >>

timerVars == << m_duration, m_remaining, m_running, m_finished >>

runVars == << pc, m_layers, breakRequested, g_time, accumulator, subSteps,
              frameLog >>

sceneVars == << m_nextID, m_entities, m_entityIndex, m_sprites, sceneArg,
                renderCalls >>

engineVars == << runVars, sceneVars >>

batchVars == << m_isDrawing, m_commands, m_geometryCommands,
                m_unifiedCommands, m_drawRanges, m_vertexScratch,
                m_vertexCapacity, m_indexCapacity, m_vertexBuffer,
                m_indexBuffer, m_stats, m_viewProjT, cbViewProjT, gpuDraws,
                endResult >>

NoEnd == [outcome |-> "none", vertexCursor |-> 0, indexCursor |-> 0,
          uploadedVertices |-> 0, uploadedIndices |-> 0]

ZeroStats == [drawCalls |-> 0, spritesSubmitted |-> 0, spritesCulled |-> 0]

\* GameServices::Init
InitialGameTime == [scaledDeltaSeconds |-> 0, timeScale |-> 1, paused |-> FALSE]

\* an empty std::unordered_map<EntityID, std::size_t>
NoIndex == [id \in {} |-> 0]

\* a ComponentStore after construction
EmptyStore == [m_dense |-> << >>, m_denseEntities |-> << >>, m_sparse |-> NoIndex]

Init ==
    /\ phase = "constructed"
    /\ srv \in SrvTables
    /\ m_isDrawing = FALSE
    /\ m_commands = << >>
    /\ m_geometryCommands = << >>
    /\ m_unifiedCommands = << >>
    /\ m_drawRanges = << >>
    /\ m_vertexScratch = << >>
    /\ m_vertexCapacity = 0
    /\ m_indexCapacity = 0
    /\ m_vertexBuffer = 0
    /\ m_indexBuffer = 0
    /\ m_stats = ZeroStats
    /\ m_viewProjT = 0
    /\ cbViewProjT = 0
    /\ gpuDraws = << >>
    /\ endResult = NoEnd
    /\ calls = 0
    /\ callerArrays = CallerContents[1]
    /\ ends = 0
    /\ frames = 0
    /\ rejected = {}
    /\ lastOp = "ctor"
    /\ m_duration = 0
    /\ m_remaining = 0
    /\ m_running = FALSE
    /\ m_finished = FALSE
    /\ pc = "Idle"
    /\ m_layers = << >>
    /\ breakRequested = FALSE
    /\ g_time = InitialGameTime
    /\ accumulator = 0
    /\ subSteps = 0
    /\ frameLog = << >>
    /\ m_nextID = 1
    /\ m_entities = << >>
    /\ m_entityIndex = NoIndex
    /\ m_sprites = EmptyStore
    /\ sceneArg = 0
    /\ renderCalls = << >>

\* ---------------------------------------------------------------------
\* Capacity manager
\* ---------------------------------------------------------------------
RECURSIVE GrowCapacity(_, _)
GrowCapacity(newCapacity, count) ==
    IF newCapacity < count THEN GrowCapacity(newCapacity * 2, count)
    ELSE newCapacity

\* (variant: the buffer is re-created at the size the request needs)
EnsureVertexCapacity_FitToRequest(vertexCount, capacity, buffer, createOk) ==
    LET newCapacity == GrowCapacity(VertexBaseline, vertexCount)
    IN IF newCapacity = capacity /\ buffer # 0
       THEN [ok |-> TRUE, capacity |-> capacity, buffer |-> buffer]
       ELSE IF ~createOk
            THEN [ok |-> FALSE, capacity |-> capacity, buffer |-> buffer]
            ELSE [ok |-> TRUE, capacity |-> newCapacity, buffer |-> newCapacity]

\* Result of EnsureVertexCapacity(vertexCount) when CreateBuffer answers
\* createOk.
EnsureVertexCapacity(vertexCount, capacity, buffer, createOk) ==
    IF vertexCount <= capacity /\ buffer # 0
    THEN [ok |-> TRUE, capacity |-> capacity, buffer |-> buffer]
    ELSE LET newCapacity ==
                 GrowCapacity(IF capacity = 0 THEN VertexBaseline ELSE capacity,
                              vertexCount)
         IN IF ~createOk
            THEN [ok |-> FALSE, capacity |-> capacity, buffer |-> buffer]
            ELSE [ok |-> TRUE, capacity |-> newCapacity, buffer |-> newCapacity]

\* (variant: the capacity is recorded before CreateBuffer is known to succeed)
EnsureIndexCapacity_CapacityBeforeCreate(indexCount, capacity, buffer, createOk) ==
    IF indexCount <= capacity /\ buffer # 0
    THEN [ok |-> TRUE, capacity |-> capacity, buffer |-> buffer]
    ELSE LET newCapacity ==
                 GrowCapacity(IF capacity = 0 THEN IndexBaseline ELSE capacity,
                              indexCount)
         IN IF ~createOk
            THEN [ok |-> FALSE, capacity |-> newCapacity, buffer |-> buffer]
            ELSE [ok |-> TRUE, capacity |-> newCapacity, buffer |-> newCapacity]

\* (variant: the capacity is doubled once)
EnsureIndexCapacity_OneDoubling(indexCount, capacity, buffer, createOk) ==
    IF indexCount <= capacity /\ buffer # 0
    THEN [ok |-> TRUE, capacity |-> capacity, buffer |-> buffer]
    ELSE LET start == IF capacity = 0 THEN IndexBaseline ELSE capacity
             newCapacity == IF start < indexCount THEN 2 * start ELSE start
         IN IF ~createOk
            THEN [ok |-> FALSE, capacity |-> capacity, buffer |-> buffer]
            ELSE [ok |-> TRUE, capacity |-> newCapacity, buffer |-> newCapacity]

EnsureIndexCapacity(indexCount, capacity, buffer, createOk) ==
    IF indexCount <= capacity /\ buffer # 0
    THEN [ok |-> TRUE, capacity |-> capacity, buffer |-> buffer]
    ELSE LET newCapacity ==
                 GrowCapacity(IF capacity = 0 THEN IndexBaseline ELSE capacity,
                              indexCount)
         IN IF ~createOk
            THEN [ok |-> FALSE, capacity |-> capacity, buffer |-> buffer]
            ELSE [ok |-> TRUE, capacity |-> newCapacity, buffer |-> newCapacity]

\* ---------------------------------------------------------------------
\* Compositor: filter, unify, sort
\* ---------------------------------------------------------------------
\* (variant: only the null pointer is tested)
DropSprite_NullOnly(cmd) == cmd.texture = Null

\* cmd.texture == nullptr || cmd.texture->GetSRV() == nullptr
DropSprite(cmd) == cmd.texture = Null \/ srv[cmd.texture] = NoSRV

DropGeometry(cmd) ==
    \/ cmd.vertexCount = 0
    \/ cmd.indexCount = 0
    \/ cmd.texture = Null
    \/ srv[cmd.texture] = NoSRV

\* erase(remove_if(...)): the survivors keep their relative order
FilterSprites(cmds) == SelectSeq(cmds, LAMBDA c : ~DropSprite(c))

FilterGeometry(geos) == SelectSeq(geos, LAMBDA g : ~DropGeometry(g))

Unify(cmds, geos) ==
    [i \in 1..Len(cmds) |->
        [texture |-> cmds[i].texture, layer |-> cmds[i].layer,
         isSprite |-> TRUE, index |-> i]]
    \o
    [i \in 1..Len(geos) |->
        [texture |-> geos[i].texture, layer |-> geos[i].layer,
         isSprite |-> FALSE, index |-> i]]

\* (variant: the texture is compared before the layer)
Less_TextureBeforeLayer(a, b, geos) ==
    IF srv[a.texture] # srv[b.texture] THEN srv[a.texture] < srv[b.texture]
    ELSE IF a.layer # b.layer THEN a.layer < b.layer
    ELSE IF a.isSprite # b.isSprite THEN a.isSprite
    ELSE a.index < b.index

\* (variant: sprites of one layer and texture are ordered last-pushed first)
Less_ReversedTieBreak(a, b, geos) ==
    IF a.layer # b.layer THEN a.layer < b.layer
    ELSE IF srv[a.texture] # srv[b.texture] THEN srv[a.texture] < srv[b.texture]
    ELSE IF a.isSprite # b.isSprite THEN a.isSprite
    ELSE a.index > b.index

\* (variant: the texture is not a key of the order)
Less_NoTextureKey(a, b, geos) ==
    IF a.layer # b.layer THEN a.layer < b.layer
    ELSE IF a.isSprite # b.isSprite THEN a.isSprite
    ELSE a.index < b.index

\* (variant: geometry commands of one layer and texture are not ordered by
\* their clip rects)
Less_IgnoresClipRect(a, b, geos) ==
    IF a.layer # b.layer THEN a.layer < b.layer
    ELSE IF srv[a.texture] # srv[b.texture] THEN srv[a.texture] < srv[b.texture]
    ELSE IF a.isSprite # b.isSprite THEN a.isSprite
    ELSE a.index < b.index

\* The comparator handed to std::stable_sort
Less(a, b, geos) ==
    IF a.layer # b.layer THEN a.layer < b.layer
    ELSE IF srv[a.texture] # srv[b.texture] THEN srv[a.texture] < srv[b.texture]
    ELSE IF a.isSprite # b.isSprite THEN a.isSprite
    ELSE IF a.isSprite THEN a.index < b.index
    ELSE LET ga == geos[a.index]
             gb == geos[b.index]
         IN IF ga.hasClipRect # gb.hasClipRect THEN ~ga.hasClipRect
            ELSE IF ga.hasClipRect /\ ga.clipRect.x # gb.clipRect.x
                 THEN ga.clipRect.x < gb.clipRect.x
            ELSE IF ga.hasClipRect /\ ga.clipRect.y # gb.clipRect.y
                 THEN ga.clipRect.y < gb.clipRect.y
            ELSE IF ga.hasClipRect /\ ga.clipRect.w # gb.clipRect.w
                 THEN ga.clipRect.w < gb.clipRect.w
            ELSE IF ga.hasClipRect /\ ga.clipRect.h # gb.clipRect.h
                 THEN ga.clipRect.h < gb.clipRect.h
            ELSE a.index < b.index

\* std::stable_sort: elements that the comparator does not order keep their
\* relative position (x is placed before the first element it is less than).
RECURSIVE InsertSorted(_, _, _)
InsertSorted(x, s, geos) ==
    IF s = << >> THEN << x >>
    ELSE IF Less(x, Head(s), geos) THEN << x >> \o s
    ELSE << Head(s) >> \o InsertSorted(x, Tail(s), geos)

RECURSIVE StableSort(_, _)
StableSort(s, geos) ==
    IF s = << >> THEN << >>
    ELSE InsertSorted(s[Len(s)], StableSort(SubSeq(s, 1, Len(s) - 1), geos), geos)

\* ---------------------------------------------------------------------
\* Vertex/index builder and merge into draw ranges
\* ---------------------------------------------------------------------
\* static_cast<LONG>(float): truncation toward zero of a half-pixel value
ToLONG(h) == IF h >= 0 THEN h \div 2 ELSE -((-h) \div 2)

NoScissor == [left |-> 0, top |-> 0, right |-> 0, bottom |-> 0]

CmdUseScissor(u, geos) == ~u.isSprite /\ geos[u.index].hasClipRect

\* (variant: the bounds are rounded up to the next whole pixel)
CmdScissor_RoundedUp(u, geos) ==
    IF CmdUseScissor(u, geos)
    THEN LET r == geos[u.index].clipRect
         IN [left |-> (r.x + 1) \div 2, top |-> (r.y + 1) \div 2,
             right |-> (r.x + r.w + 1) \div 2,
             bottom |-> (r.y + r.h + 1) \div 2]
    ELSE NoScissor

CmdScissor(u, geos) ==
    IF CmdUseScissor(u, geos)
    THEN LET r == geos[u.index].clipRect
         IN [left |-> ToLONG(r.x), top |-> ToLONG(r.y),
             right |-> ToLONG(r.x + r.w), bottom |-> ToLONG(r.y + r.h)]
    ELSE NoScissor

NewRange(u, firstIndex, indexCount, geos) ==
    [texture |-> u.texture, layer |-> u.layer,
     firstIndex |-> firstIndex, indexCount |-> indexCount,
     useScissor |-> CmdUseScissor(u, geos),
     scissorRect |-> CmdScissor(u, geos)]

\* (variant: the texture of the range is not compared)
SameState_IgnoresTexture(u, range, geos) ==
    /\ u.layer = range.layer
    /\ CmdUseScissor(u, geos) = range.useScissor
    /\ (~CmdUseScissor(u, geos) \/ CmdScissor(u, geos) = range.scissorRect)

\* the condition under which a command extends the current range
SameState(u, range, geos) ==
    /\ u.texture = range.texture
    /\ u.layer = range.layer
    /\ CmdUseScissor(u, geos) = range.useScissor
    /\ (~CmdUseScissor(u, geos) \/ CmdScissor(u, geos) = range.scissorRect)

BuildStart ==
    [vertexBase |-> 0, indexBase |-> 0, haveRange |-> FALSE,
     currentRange |-> NewRange([texture |-> Null, layer |-> 0,
                                isSprite |-> TRUE, index |-> 0], 0, 0, << >>),
     ranges |-> << >>, scratch |-> << >>]

\* (variant: a sprite is counted with six vertices)
CmdVertexCount_SixPerSprite(u, geos) ==
    IF u.isSprite THEN SpriteIndexCount ELSE geos[u.index].vertexCount

\* elements a command adds to the scratch arrays
CmdVertexCount(u, geos) ==
    IF u.isSprite THEN SpriteVertexCount ELSE geos[u.index].vertexCount

CmdIndexCount(u, geos) ==
    IF u.isSprite THEN SpriteIndexCount ELSE geos[u.index].indexCount

\* (variant: the first index is taken from the vertex cursor)
CmdFirstIndex_FromVertexCursor(st) == st.vertexBase

\* cmdFirstIndex = static_cast<uint32_t>(currentIndexBase)
CmdFirstIndex(st) == st.indexBase

\* currentRange.indexCount += cmdIndexCount
ExtendRange(range, cmdIndexCount) ==
    [range EXCEPT !.indexCount = range.indexCount + cmdIndexCount]

\* the corners of a sprite are computed from its dst, src, color and rotation,
\* which the id of the call stands for
SpriteVertices == [pos |-> 0, attr |-> 0]

\* idx[0] = base, ..., idx[5] = base + 3
SpriteIndices(base) == << base, base + 1, base + 2, base, base + 2, base + 3 >>

\* memcpy of geo.vertices: no transform is applied
GeometryVertices(geo) == geo.vertices

\* (variant: the indices are copied as they are)
GeometryIndices_NotRebased(geo, base) == geo.indices

\* idxOut[i] = base + geo.indices[i]
GeometryIndices(geo, base) == base + geo.indices

\* (variant: the translation is left out)
ViewVertices_NoTranslation(geo) == callerArrays.vertices

\* a viewed command is read through its pointers when it is emitted, and its
\* translation is added to the position of every vertex
ViewVertices(geo) ==
    [callerArrays.vertices EXCEPT
        !.pos = callerArrays.vertices.pos
                + (IF geo.hasTranslation THEN geo.translation ELSE 0)]

ViewIndices(geo, base) == base + callerArrays.indices

\* one iteration of the build loop
BuildStep(st, u, cmds, geos) ==
    LET nv == CmdVertexCount(u, geos)
        ni == CmdIndexCount(u, geos)
        id == IF u.isSprite THEN cmds[u.index].id ELSE geos[u.index].id
        cmdFirstIndex == CmdFirstIndex(st)
        cmdIndexCount == (st.indexBase + ni) - cmdFirstIndex
        seg == [isSprite |-> u.isSprite, id |-> id,
                vertexBase |-> st.vertexBase, vertexCount |-> nv,
                indexBase |-> st.indexBase, indexCount |-> ni,
                vertices |-> IF u.isSprite THEN SpriteVertices
                             ELSE IF geos[u.index].view
                                  THEN ViewVertices(geos[u.index])
                                  ELSE GeometryVertices(geos[u.index]),
                indices |-> IF u.isSprite THEN SpriteIndices(st.vertexBase)
                            ELSE IF geos[u.index].view
                                 THEN ViewIndices(geos[u.index], st.vertexBase)
                                 ELSE GeometryIndices(geos[u.index], st.vertexBase)]
        fresh == NewRange(u, cmdFirstIndex, cmdIndexCount, geos)
    IN [vertexBase |-> st.vertexBase + nv,
        indexBase |-> st.indexBase + ni,
        haveRange |-> TRUE,
        currentRange |->
            IF ~st.haveRange THEN fresh
            ELSE IF SameState(u, st.currentRange, geos)
                 THEN ExtendRange(st.currentRange, cmdIndexCount)
                 ELSE fresh,
        ranges |->
            IF st.haveRange /\ ~SameState(u, st.currentRange, geos)
            THEN Append(st.ranges, st.currentRange)
            ELSE st.ranges,
        scratch |-> Append(st.scratch, seg)]

RECURSIVE BuildLoop(_, _, _, _, _)
BuildLoop(st, unified, k, cmds, geos) ==
    IF k > Len(unified) THEN st
    ELSE BuildLoop(BuildStep(st, unified[k], cmds, geos), unified, k + 1, cmds, geos)

RECURSIVE TotalVertices(_, _)
TotalVertices(unified, geos) ==
    IF unified = << >> THEN 0
    ELSE CmdVertexCount(Head(unified), geos)
         + TotalVertices(Tail(unified), geos)

RECURSIVE TotalIndices(_, _)
TotalIndices(unified, geos) ==
    IF unified = << >> THEN 0
    ELSE CmdIndexCount(Head(unified), geos)
         + TotalIndices(Tail(unified), geos)

\* the draw loop: one DrawIndexed per range, in the order of the list
DrawLoop(ranges) ==
    [i \in 1..Len(ranges) |->
        [srv |-> IF ranges[i].texture # Null THEN srv[ranges[i].texture]
                 ELSE srv["White"],
         indexCount |-> ranges[i].indexCount,
         firstIndex |-> ranges[i].firstIndex,
         scissorEnabled |-> ranges[i].useScissor,
         scissorRect |-> ranges[i].scissorRect]]

\* ---------------------------------------------------------------------
\* SpriteBatch2D::End as a function of the submitted lists, the capacities
\* and the answers of the device (dev.createVB, dev.createIB: CreateBuffer;
\* dev.mapCB, dev.mapVB, dev.mapIB: Map)
\* ---------------------------------------------------------------------
\* (at most one call of the device fails during one End)
DeviceAnswers ==
    { [createVB |-> FALSE, createIB |-> TRUE,
       mapCB |-> TRUE, mapVB |-> TRUE, mapIB |-> TRUE],
      [createVB |-> TRUE, createIB |-> FALSE,
       mapCB |-> TRUE, mapVB |-> TRUE, mapIB |-> TRUE],
      [createVB |-> TRUE, createIB |-> TRUE,
       mapCB |-> TRUE, mapVB |-> TRUE, mapIB |-> TRUE],
      [createVB |-> TRUE, createIB |-> TRUE,
       mapCB |-> FALSE, mapVB |-> TRUE, mapIB |-> TRUE],
      [createVB |-> TRUE, createIB |-> TRUE,
       mapCB |-> TRUE, mapVB |-> FALSE, mapIB |-> TRUE],
      [createVB |-> TRUE, createIB |-> TRUE,
       mapCB |-> TRUE, mapVB |-> TRUE, mapIB |-> FALSE] }

EndOutcome(cmds0, geos0, vcap, vbuf, icap, ibuf, dev) ==
    LET cmds == FilterSprites(cmds0)
        geos == FilterGeometry(geos0)
        unified == StableSort(Unify(cmds, geos), geos)
        totalVertices == TotalVertices(unified, geos)
        totalIndices == TotalIndices(unified, geos)
        ev == EnsureVertexCapacity(totalVertices, vcap, vbuf, dev.createVB)
        ei == EnsureIndexCapacity(totalIndices, icap, ibuf, dev.createIB)
        built == BuildLoop(BuildStart, unified, 1, cmds, geos)
        ranges == IF built.haveRange THEN Append(built.ranges, built.currentRange)
                  ELSE built.ranges
        early == [commands |-> cmds, geometry |-> geos,
                  unified |-> << >>, sorted |-> FALSE,
                  vcap |-> vcap, vbuf |-> vbuf, icap |-> icap, ibuf |-> ibuf,
                  cbMapped |-> FALSE, built |-> FALSE,
                  ranges |-> << >>, scratch |-> << >>,
                  vertexCursor |-> 0, indexCursor |-> 0,
                  uploadedVertices |-> 0, uploadedIndices |-> 0,
                  draws |-> << >>, outcome |-> "empty"]
        sorted == [early EXCEPT !.unified = unified, !.sorted = TRUE]
        sized == [sorted EXCEPT !.cbMapped = dev.mapCB, !.built = TRUE,
                                !.vcap = ev.capacity, !.vbuf = ev.buffer,
                                !.icap = ei.capacity, !.ibuf = ei.buffer,
                                !.ranges = ranges, !.scratch = built.scratch,
                                !.vertexCursor = built.vertexBase,
                                !.indexCursor = built.indexBase]
    IN  IF cmds = << >> /\ geos = << >> THEN early
        ELSE IF totalVertices = 0 \/ totalIndices = 0
             THEN [sorted EXCEPT !.outcome = "nothing"]
        ELSE IF ~ev.ok
             THEN [sorted EXCEPT !.outcome = "vertexAllocFailed",
                                 !.vcap = ev.capacity, !.vbuf = ev.buffer]
        ELSE IF ~ei.ok
             THEN [sorted EXCEPT !.outcome = "indexAllocFailed",
                                 !.vcap = ev.capacity, !.vbuf = ev.buffer,
                                 !.icap = ei.capacity, !.ibuf = ei.buffer]
        ELSE IF ~dev.mapVB
             THEN [sized EXCEPT !.outcome = "vertexMapFailed"]
        ELSE IF ~dev.mapIB
             THEN [sized EXCEPT !.outcome = "indexMapFailed",
                                !.uploadedVertices = totalVertices]
        ELSE [sized EXCEPT !.outcome = "drawn",
                           !.uploadedVertices = totalVertices,
                           !.uploadedIndices = totalIndices,
                           !.draws = DrawLoop(ranges)]

\* ---------------------------------------------------------------------
\* Operations
\* ---------------------------------------------------------------------
\* SpriteBatch2D::Init
BatchInit(createVB, createIB) ==
    /\ phase = "constructed"
    /\ LET ev == EnsureVertexCapacity(InitVertexCount, m_vertexCapacity,
                                      m_vertexBuffer, createVB)
           ei == EnsureIndexCapacity(InitIndexCount, m_indexCapacity,
                                     m_indexBuffer, createIB)
       IN /\ m_vertexCapacity' = ev.capacity
          /\ m_vertexBuffer' = ev.buffer
          /\ m_indexCapacity' = IF ev.ok THEN ei.capacity ELSE m_indexCapacity
          /\ m_indexBuffer' = IF ev.ok THEN ei.buffer ELSE m_indexBuffer
          /\ phase' = IF ev.ok /\ ei.ok THEN "ready" ELSE "failed"
    /\ lastOp' = "Init"
    /\ UNCHANGED << srv, m_isDrawing, m_commands, m_geometryCommands,
                    m_unifiedCommands, m_drawRanges, m_vertexScratch, m_stats,
                    m_viewProjT, cbViewProjT, gpuDraws, endResult,
                    calls, ends, frames, rejected, callerArrays,
                    timerVars, engineVars >>

Shutdown ==
    /\ phase = "ready"
    /\ ~m_isDrawing
    /\ phase' = "shutdown"
    /\ m_vertexScratch' = << >>
    /\ m_commands' = << >>
    /\ m_geometryCommands' = << >>
    /\ m_unifiedCommands' = << >>
    /\ m_drawRanges' = << >>
    /\ srv' = [srv EXCEPT !["White"] = NoSRV]
    /\ m_vertexBuffer' = 0
    /\ m_indexBuffer' = 0
    /\ m_vertexCapacity' = 0
    /\ m_indexCapacity' = 0
    /\ lastOp' = "Shutdown"
    /\ UNCHANGED << m_isDrawing, m_stats, m_viewProjT, cbViewProjT, gpuDraws,
                    endResult, calls, ends, frames, rejected, callerArrays,
                    timerVars, engineVars >>

\* (variant: Begin leaves the command lists as the latest End left them)
Begin_KeepsCommands(viewProjT) ==
    /\ phase = "ready"
    /\ frames < MaxFrames
    /\ frames' = frames + 1
    /\ m_stats' = ZeroStats
    /\ m_isDrawing' = TRUE
    /\ m_viewProjT' = viewProjT
    /\ lastOp' = IF m_isDrawing THEN "NestedBegin" ELSE "Begin"
    /\ UNCHANGED << phase, srv, m_commands, m_geometryCommands,
                    m_unifiedCommands, m_drawRanges,
                    m_vertexScratch, m_vertexCapacity, m_indexCapacity,
                    m_vertexBuffer, m_indexBuffer, cbViewProjT, gpuDraws,
                    endResult, calls, ends, rejected, callerArrays,
                    timerVars, engineVars >>

\* Begin does not test m_isDrawing: the assertion is compiled out
Begin(viewProjT) ==
    /\ phase = "ready"
    /\ frames < MaxFrames
    /\ frames' = frames + 1
    /\ m_stats' = ZeroStats
    /\ m_isDrawing' = TRUE
    /\ m_viewProjT' = viewProjT
    /\ m_commands' = << >>
    /\ m_geometryCommands' = << >>
    /\ lastOp' = IF m_isDrawing THEN "NestedBegin" ELSE "Begin"
    /\ UNCHANGED << phase, srv, m_unifiedCommands, m_drawRanges,
                    m_vertexScratch, m_vertexCapacity, m_indexCapacity,
                    m_vertexBuffer, m_indexBuffer, cbViewProjT, gpuDraws,
                    endResult, calls, ends, rejected, callerArrays,
                    timerVars, engineVars >>

\* (variant: the test of m_isDrawing is missing)
Push_NoGuard(in) ==
    /\ phase = "ready"
    /\ calls < MaxCalls
    /\ calls' = calls + 1
    /\ lastOp' = "Push"
    /\ rejected' = IF m_isDrawing THEN rejected ELSE rejected \cup {calls + 1}
    /\ m_commands' = Append(m_commands,
                            [texture |-> in.texture, layer |-> in.layer,
                             id |-> calls + 1])
    /\ m_stats' = [m_stats EXCEPT
                      !.spritesSubmitted = m_stats.spritesSubmitted + 1]
    /\ UNCHANGED << phase, srv, m_isDrawing, m_geometryCommands,
                    m_unifiedCommands, m_drawRanges, m_vertexScratch,
                    m_vertexCapacity, m_indexCapacity, m_vertexBuffer,
                    m_indexBuffer, m_viewProjT, cbViewProjT, gpuDraws,
                    endResult, ends, frames, callerArrays,
                    timerVars, engineVars >>

Push(in) ==
    /\ phase = "ready"
    /\ calls < MaxCalls
    /\ calls' = calls + 1
    /\ lastOp' = "Push"
    /\ IF ~m_isDrawing
       THEN /\ rejected' = rejected \cup {calls + 1}
            /\ UNCHANGED << m_commands, m_stats >>
       ELSE /\ m_commands' = Append(m_commands,
                                    [texture |-> in.texture, layer |-> in.layer,
                                     id |-> calls + 1])
            /\ m_stats' = [m_stats EXCEPT
                              !.spritesSubmitted = m_stats.spritesSubmitted + 1]
            /\ UNCHANGED rejected
    /\ UNCHANGED << phase, srv, m_isDrawing, m_geometryCommands,
                    m_unifiedCommands, m_drawRanges, m_vertexScratch,
                    m_vertexCapacity, m_indexCapacity, m_vertexBuffer,
                    m_indexBuffer, m_viewProjT, cbViewProjT, gpuDraws,
                    endResult, ends, frames, callerArrays,
                    timerVars, engineVars >>

DefaultWhiteTexture == IF srv["White"] # NoSRV THEN "White" ELSE Null

\* PushGeometryRaw storing the pointers of the caller instead of a copy
PushGeometryRaw_KeepsPointers(in) ==
    /\ phase = "ready"
    /\ calls < MaxCalls
    /\ calls' = calls + 1
    /\ lastOp' = "PushGeometryRaw"
    /\ IF ~m_isDrawing
       THEN /\ rejected' = rejected \cup {calls + 1}
            /\ UNCHANGED m_geometryCommands
       ELSE /\ UNCHANGED rejected
            /\ IF in.vertexCount = 0 \/ in.indexCount = 0
               THEN UNCHANGED m_geometryCommands
               ELSE m_geometryCommands' =
                      Append(m_geometryCommands,
                             [texture |-> IF in.texture # Null THEN in.texture
                                          ELSE DefaultWhiteTexture,
                              layer |-> in.layer,
                              hasClipRect |-> in.clipRect.w > 0 /\ in.clipRect.h > 0,
                              clipRect |-> in.clipRect,
                              vertexCount |-> in.vertexCount,
                              indexCount |-> in.indexCount,
                              view |-> TRUE,
                              vertices |-> [pos |-> 0, attr |-> 0],
                              indices |-> 0,
                              hasTranslation |-> FALSE,
                              translation |-> 0,
                              id |-> calls + 1])
    /\ UNCHANGED << phase, srv, m_isDrawing, m_commands, m_unifiedCommands,
                    m_drawRanges, m_vertexScratch, m_vertexCapacity,
                    m_indexCapacity, m_vertexBuffer, m_indexBuffer, m_stats,
                    m_viewProjT, cbViewProjT, gpuDraws, endResult, ends, frames, callerArrays,
                    timerVars, engineVars >>

PushGeometryRaw(in) ==
    /\ phase = "ready"
    /\ calls < MaxCalls
    /\ calls' = calls + 1
    /\ lastOp' = "PushGeometryRaw"
    /\ IF ~m_isDrawing
       THEN /\ rejected' = rejected \cup {calls + 1}
            /\ UNCHANGED m_geometryCommands
       ELSE /\ UNCHANGED rejected
            /\ IF in.vertexCount = 0 \/ in.indexCount = 0
               THEN UNCHANGED m_geometryCommands
               ELSE m_geometryCommands' =
                      Append(m_geometryCommands,
                             [texture |-> IF in.texture # Null THEN in.texture
                                          ELSE DefaultWhiteTexture,
                              layer |-> in.layer,
                              hasClipRect |-> in.clipRect.w > 0 /\ in.clipRect.h > 0,
                              clipRect |-> in.clipRect,
                              vertexCount |-> in.vertexCount,
                              indexCount |-> in.indexCount,
                              view |-> FALSE,
                              vertices |-> callerArrays.vertices,
                              indices |-> callerArrays.indices,
                              hasTranslation |-> FALSE,
                              translation |-> 0,
                              id |-> calls + 1])
    /\ UNCHANGED << phase, srv, m_isDrawing, m_commands, m_unifiedCommands,
                    m_drawRanges, m_vertexScratch, m_vertexCapacity,
                    m_indexCapacity, m_vertexBuffer, m_indexBuffer, m_stats,
                    m_viewProjT, cbViewProjT, gpuDraws, endResult, ends, frames, callerArrays,
                    timerVars, engineVars >>

\* a command that stores no copy
NoVertices == [pos |-> 0, attr |-> 0]

NoIndices == 0

\* PushGeometryView: the validation of PushGeometryRaw, the command keeps
\* the pointers of the caller and the translation
PushGeometryView(in) ==
    /\ phase = "ready"
    /\ calls < MaxCalls
    /\ calls' = calls + 1
    /\ lastOp' = "PushGeometryView"
    /\ IF ~m_isDrawing
       THEN /\ rejected' = rejected \cup {calls + 1}
            /\ UNCHANGED m_geometryCommands
       ELSE /\ UNCHANGED rejected
            /\ IF in.vertexCount = 0 \/ in.indexCount = 0
               THEN UNCHANGED m_geometryCommands
               ELSE m_geometryCommands' =
                      Append(m_geometryCommands,
                             [texture |-> IF in.texture # Null THEN in.texture
                                          ELSE DefaultWhiteTexture,
                              layer |-> in.layer,
                              hasClipRect |-> in.clipRect.w > 0 /\ in.clipRect.h > 0,
                              clipRect |-> in.clipRect,
                              vertexCount |-> in.vertexCount,
                              indexCount |-> in.indexCount,
                              view |-> TRUE,
                              vertices |-> NoVertices,
                              indices |-> NoIndices,
                              hasTranslation |-> in.translation # 0,
                              translation |-> in.translation,
                              id |-> calls + 1])
    /\ UNCHANGED << phase, srv, m_isDrawing, m_commands, m_unifiedCommands,
                    m_drawRanges, m_vertexScratch, m_vertexCapacity,
                    m_indexCapacity, m_vertexBuffer, m_indexBuffer, m_stats,
                    m_viewProjT, cbViewProjT, gpuDraws, endResult, ends, frames,
                    callerArrays,
                    timerVars, engineVars >>

\* the caller overwrites, resizes or refills its arrays (as RenderGeometry
\* does with m_transformedVertices for every translated geometry)
CallerWrites(contents) ==
    /\ contents # callerArrays
    /\ callerArrays' = contents
    /\ lastOp' = "CallerWrites"
    /\ UNCHANGED << phase, srv, batchVars, calls, ends, frames, rejected,
                    timerVars, engineVars >>

\* End does not test m_isDrawing either: called without an open frame it runs
\* on the lists and the statistics the latest End left
End(dev) ==
    /\ phase = "ready"
    /\ ends < MaxEnds
    /\ ends' = ends + 1
    /\ LET r == EndOutcome(m_commands, m_geometryCommands,
                           m_vertexCapacity, m_vertexBuffer,
                           m_indexCapacity, m_indexBuffer, dev)
       IN /\ m_isDrawing' = FALSE
          /\ m_commands' = r.commands
          /\ m_geometryCommands' = r.geometry
          /\ m_unifiedCommands' = IF r.sorted THEN r.unified ELSE m_unifiedCommands
          /\ m_vertexCapacity' = r.vcap
          /\ m_vertexBuffer' = r.vbuf
          /\ m_indexCapacity' = r.icap
          /\ m_indexBuffer' = r.ibuf
          /\ cbViewProjT' = IF r.cbMapped THEN m_viewProjT ELSE cbViewProjT
          /\ m_drawRanges' = IF r.built THEN r.ranges ELSE m_drawRanges
          /\ m_vertexScratch' = IF r.built THEN r.scratch ELSE m_vertexScratch
          /\ gpuDraws' = r.draws
          /\ m_stats' = [m_stats EXCEPT !.drawCalls = m_stats.drawCalls + Len(r.draws)]
          /\ endResult' = [outcome |-> r.outcome,
                           vertexCursor |-> r.vertexCursor,
                           indexCursor |-> r.indexCursor,
                           uploadedVertices |-> r.uploadedVertices,
                           uploadedIndices |-> r.uploadedIndices]
    /\ lastOp' = IF m_isDrawing THEN "End" ELSE "StrayEnd"
    /\ UNCHANGED << phase, srv, m_viewProjT, calls, frames, rejected, callerArrays,
                    timerVars, engineVars >>

Next ==
    \/ \E createVB \in BOOLEAN, createIB \in BOOLEAN : BatchInit(createVB, createIB)
    \/ \E viewProjT \in {frames + 1} : Begin(viewProjT)
    \/ \E in \in SpriteInputs : Push(in)
    \/ \E in \in GeometryInputs : PushGeometryRaw(in)
    \/ \E dev \in DeviceAnswers : End(dev)
    \/ Shutdown

Spec == Init /\ [][Next]_vars

\* ---------------------------------------------------------------------
\* The batch with a caller that submits geometry by copy and by reference
\* and rewrites its arrays between the calls
\* ---------------------------------------------------------------------
RawInputs ==
    {in \in GeometryInputs :
        in.vertexCount = 4 /\ in.clipRect.w = 4 /\ in.clipRect.h = 0}

AllMapped ==
    {dev \in DeviceAnswers :
        dev.createVB /\ dev.createIB /\ dev.mapCB /\ dev.mapVB /\ dev.mapIB}

NextView ==
    \/ \E createVB \in {TRUE}, createIB \in {TRUE} : BatchInit(createVB, createIB)
    \/ \E viewProjT \in {frames + 1} : Begin(viewProjT)
    \/ \E in \in {i \in SpriteInputs : i.texture = "B"} : Push(in)
    \/ \E in \in RawInputs : PushGeometryRaw(in)
    \/ \E in \in ViewInputs : PushGeometryView(in)
    \/ \E k \in 1..Len(CallerContents) : CallerWrites(CallerContents[k])
    \/ \E dev \in AllMapped : End(dev)

SpecView == Init /\ [][NextView]_vars

\* ---------------------------------------------------------------------
\* Gameplay::CountdownTimer. Times are whole ticks; a duration may be
\* negative (the code accepts any float), an elapsed time dt is positive.
\* ---------------------------------------------------------------------
MaxDuration == 3

MaxDt == 2

Durations == -1..MaxDuration

Dts == 1..MaxDt

\* std::min
Min(a, b) == IF b < a THEN b ELSE a

rendererVars == << phase, srv, batchVars, callerArrays, calls, ends, frames,
                   rejected >>

\* explicit CountdownTimer(float durationSeconds)
CountdownTimer(durationSeconds) ==
    /\ m_duration' = durationSeconds
    /\ m_remaining' = durationSeconds
    /\ m_running' = FALSE
    /\ m_finished' = FALSE
    /\ lastOp' = "CountdownTimer"
    /\ UNCHANGED << rendererVars, engineVars >>

SetDuration(durationSeconds) ==
    /\ m_duration' = durationSeconds
    /\ m_remaining' = Min(m_remaining, durationSeconds)
    /\ lastOp' = "SetDuration"
    /\ UNCHANGED << m_running, m_finished, rendererVars, engineVars >>

Reset ==
    /\ m_remaining' = 0
    /\ m_running' = FALSE
    /\ m_finished' = FALSE
    /\ lastOp' = "Reset"
    /\ UNCHANGED << m_duration, rendererVars, engineVars >>

Restart ==
    /\ m_remaining' = m_duration
    /\ m_running' = (m_duration > 0)
    /\ m_finished' = FALSE
    /\ lastOp' = "Restart"
    /\ UNCHANGED << m_duration, rendererVars, engineVars >>

Start ==
    /\ IF m_duration <= 0
       THEN UNCHANGED << m_remaining, m_running, m_finished >>
       ELSE /\ m_remaining' = IF m_remaining <= 0 THEN m_duration
                              ELSE m_remaining
            /\ m_running' = TRUE
            /\ m_finished' = FALSE
    /\ lastOp' = "Start"
    /\ UNCHANGED << m_duration, rendererVars, engineVars >>

Stop ==
    /\ m_running' = FALSE
    /\ lastOp' = "Stop"
    /\ UNCHANGED << m_duration, m_remaining, m_finished, rendererVars, engineVars >>

Update(dt) ==
    /\ IF ~m_running \/ m_finished \/ m_duration <= 0
       THEN UNCHANGED << m_remaining, m_running, m_finished >>
       ELSE IF m_remaining - dt <= 0
            THEN /\ m_remaining' = 0
                 /\ m_running' = FALSE
                 /\ m_finished' = TRUE
            ELSE /\ m_remaining' = m_remaining - dt
                 /\ UNCHANGED << m_running, m_finished >>
    /\ lastOp' = "Update"
    /\ UNCHANGED << m_duration, rendererVars, engineVars >>

NextTimer ==
    \/ \E durationSeconds \in Durations : CountdownTimer(durationSeconds)
    \/ \E durationSeconds \in Durations : SetDuration(durationSeconds)
    \/ Reset
    \/ Restart
    \/ Start
    \/ Stop
    \/ \E dt \in Dts : Update(dt)

SpecTimer == Init /\ [][NextTimer]_vars

\* ---------------------------------------------------------------------
\* Application::Run and GameServices. Times are whole ticks of 1/120 s.
\* frameLog records the calls an iteration of the loop makes on the layers,
\* on the user interface and on the sprite batch; a callback of a layer or
\* of an event handler may change the time scale, pause the game or
\* request a breakpoint.
\* ---------------------------------------------------------------------
kFixedStep == 2

kMaxFrameDt == 30

kMaxSubSteps == 8

MaxLayers == 2

Layers == {"game", "hud"}

\* values of m_time.DeltaSeconds()
RawDts == {-1, 0, 1, 3, 17, 30, 31}

\* arguments of SetTimeScale
TimeScales == {-1, 0, 1, 3}

\* GameServices::Update
GameServices_Update(t, rawDeltaSeconds) ==
    LET raw == IF rawDeltaSeconds < 0 THEN 0 ELSE rawDeltaSeconds
    IN IF t.paused \/ t.timeScale <= 0
       THEN [t EXCEPT !.scaledDeltaSeconds = 0]
       ELSE [t EXCEPT !.scaledDeltaSeconds = raw * t.timeScale]

\* GameServices::SetTimeScale
SetTimeScale(t, scale) ==
    [t EXCEPT !.timeScale = IF scale < 0 THEN 0 ELSE scale]

\* GameServices::SetPaused
SetPaused(t, paused) == [t EXCEPT !.paused = paused]

\* What the user code behind a callback does to the engine.
Callbacks ==
    {[op |-> "none", arg |-> 0], [op |-> "RequestBreakpoint", arg |-> 0],
     [op |-> "SetPaused", arg |-> TRUE], [op |-> "SetPaused", arg |-> FALSE]}
    \cup {[op |-> "SetTimeScale", arg |-> s] : s \in TimeScales}

TimeAfter(cb) ==
    IF cb.op = "SetTimeScale" THEN SetTimeScale(g_time, cb.arg)
    ELSE IF cb.op = "SetPaused" THEN SetPaused(g_time, cb.arg)
    ELSE g_time

RequestAfter(cb) == breakRequested \/ cb.op = "RequestBreakpoint"

\* for (Layer* layer : m_layers) if (layer) layer-><call>(...)
RECURSIVE LayerCalls(_, _)
LayerCalls(call, layers) ==
    IF layers = << >> THEN << >>
    ELSE IF Head(layers) = Null THEN LayerCalls(call, Tail(layers))
    ELSE << [layer |-> Head(layers), call |-> call] >>
         \o LayerCalls(call, Tail(layers))

BatchCall(call) == [layer |-> Null, call |-> call]

\* Application::PushLayer, before Run
PushLayer(layer) ==
    /\ pc = "Idle"
    /\ Len(m_layers) < MaxLayers
    /\ m_layers' = IF layer = Null THEN m_layers ELSE Append(m_layers, layer)
    /\ lastOp' = "PushLayer"
    /\ UNCHANGED << pc, breakRequested, g_time, accumulator, subSteps,
                    frameLog, rendererVars, timerVars, sceneVars >>

\* Run is entered: double accumulator = 0.0
Run_Enter ==
    /\ pc = "Idle"
    /\ accumulator' = 0
    /\ pc' = "PumpEvents"
    /\ lastOp' = "Run"
    /\ UNCHANGED << m_layers, breakRequested, g_time, subSteps, frameLog,
                    rendererVars, timerVars, sceneVars >>

\* RequestBreakpoint called by a thread other than the one in Run
RequestBreakpoint ==
    /\ pc \notin {"Idle", "Returned"}
    /\ ~breakRequested
    /\ breakRequested' = TRUE
    /\ lastOp' = "RequestBreakpoint"
    /\ UNCHANGED << pc, m_layers, g_time, accumulator, subSteps, frameLog,
                    rendererVars, timerVars, sceneVars >>

\* while (PumpEvents()): quit is an SDL_QUIT event in the queue, cb what the
\* handlers of the other events do
Run_PumpEvents(quit, cb) ==
    /\ pc = "PumpEvents"
    /\ IF breakRequested
       THEN /\ pc' = "AfterLoop"
            /\ UNCHANGED << breakRequested, g_time >>
       ELSE IF quit
       THEN /\ pc' = "AfterLoop"
            /\ UNCHANGED << breakRequested, g_time >>
       ELSE /\ breakRequested' = RequestAfter(cb)
            /\ g_time' = TimeAfter(cb)
            /\ pc' = IF RequestAfter(cb) THEN "AfterLoop" ELSE "LoopTop"
    /\ lastOp' = "PumpEvents"
    /\ UNCHANGED << m_layers, accumulator, subSteps, frameLog,
                    rendererVars, timerVars, sceneVars >>

\* if (ConsumeBreakpointRequest()) break;  at the top of the body
Run_LoopTop ==
    /\ pc = "LoopTop"
    /\ breakRequested' = FALSE
    /\ pc' = IF breakRequested THEN "AfterLoop" ELSE "TimeStep"
    /\ lastOp' = "LoopTop"
    /\ UNCHANGED << m_layers, g_time, accumulator, subSteps, frameLog,
                    rendererVars, timerVars, sceneVars >>

\* rawDt is clamped, GameServices::Update, accumulator += scaledDt
Run_TimeStep(rawDt) ==
    /\ pc = "TimeStep"
    /\ LET low == IF rawDt < 0 THEN 0 ELSE rawDt
           clamped == IF low > kMaxFrameDt THEN kMaxFrameDt ELSE low
           t == GameServices_Update(g_time, clamped)
       IN /\ g_time' = t
          /\ accumulator' = accumulator + t.scaledDeltaSeconds
    /\ subSteps' = 0
    /\ frameLog' = << >>
    /\ pc' = "FixedLoop"
    /\ lastOp' = "TimeStep"
    /\ UNCHANGED << m_layers, breakRequested, rendererVars, timerVars,
                    sceneVars >>

\* one round of the while loop of the fixed-step phase
Run_FixedRound(cb) ==
    /\ pc = "FixedLoop"
    /\ accumulator >= kFixedStep /\ subSteps < kMaxSubSteps
    /\ frameLog' = frameLog \o LayerCalls("OnFixedUpdate", m_layers)
    /\ accumulator' = accumulator - kFixedStep
    /\ subSteps' = subSteps + 1
    /\ g_time' = TimeAfter(cb)
    /\ breakRequested' = RequestAfter(cb)
    /\ lastOp' = "FixedRound"
    /\ UNCHANGED << pc, m_layers, rendererVars, timerVars, sceneVars >>

\* (variant: the accumulator is kept when the cap is reached)
Run_FixedDone_KeepsAccumulator ==
    /\ pc = "FixedLoop"
    /\ ~(accumulator >= kFixedStep /\ subSteps < kMaxSubSteps)
    /\ pc' = "OnUpdate"
    /\ lastOp' = "FixedDone"
    /\ UNCHANGED << accumulator, m_layers, breakRequested, g_time, subSteps,
                    frameLog, rendererVars, timerVars, sceneVars >>

\* the while loop is left: if (subSteps == kMaxSubSteps) accumulator = 0.0
Run_FixedDone ==
    /\ pc = "FixedLoop"
    /\ ~(accumulator >= kFixedStep /\ subSteps < kMaxSubSteps)
    /\ accumulator' = IF subSteps = kMaxSubSteps THEN 0 ELSE accumulator
    /\ pc' = "OnUpdate"
    /\ lastOp' = "FixedDone"
    /\ UNCHANGED << m_layers, breakRequested, g_time, subSteps, frameLog,
                    rendererVars, timerVars, sceneVars >>

\* every layer's OnUpdate(frameDt)
Run_OnUpdate(cb) ==
    /\ pc = "OnUpdate"
    /\ frameLog' = frameLog \o LayerCalls("OnUpdate", m_layers)
    /\ g_time' = TimeAfter(cb)
    /\ breakRequested' = RequestAfter(cb)
    /\ pc' = "Begin"
    /\ lastOp' = "OnUpdate"
    /\ UNCHANGED << m_layers, accumulator, subSteps, rendererVars,
                    timerVars, sceneVars >>

\* BeginFrame(clearColor); batch.Begin(...)
Run_Begin ==
    /\ pc = "Begin"
    /\ frameLog' = Append(frameLog, BatchCall("Begin"))
    /\ pc' = "OnRender"
    /\ lastOp' = "Run_Begin"
    /\ UNCHANGED << m_layers, breakRequested, g_time, accumulator, subSteps,
                    rendererVars, timerVars, sceneVars >>

\* (variant: a breakpoint requested by OnRender ends the loop at once)
Run_OnRender_BreaksOnRequest(cb) ==
    /\ pc = "OnRender"
    /\ frameLog' = frameLog \o LayerCalls("OnRender", m_layers)
    /\ g_time' = TimeAfter(cb)
    /\ breakRequested' = RequestAfter(cb)
    /\ pc' = IF RequestAfter(cb) THEN "AfterLoop" ELSE "UI"
    /\ lastOp' = "OnRender"
    /\ UNCHANGED << m_layers, accumulator, subSteps, rendererVars,
                    timerVars, sceneVars >>

\* every layer's OnRender(batch)
Run_OnRender(cb) ==
    /\ pc = "OnRender"
    /\ frameLog' = frameLog \o LayerCalls("OnRender", m_layers)
    /\ g_time' = TimeAfter(cb)
    /\ breakRequested' = RequestAfter(cb)
    /\ pc' = "UI"
    /\ lastOp' = "OnRender"
    /\ UNCHANGED << m_layers, accumulator, subSteps, rendererVars,
                    timerVars, sceneVars >>

\* m_ui.Update(frameDt); m_ui.Render()
Run_UI ==
    /\ pc = "UI"
    /\ frameLog' = Append(frameLog, BatchCall("UIRender"))
    /\ pc' = "End"
    /\ lastOp' = "UI"
    /\ UNCHANGED << m_layers, breakRequested, g_time, accumulator, subSteps,
                    rendererVars, timerVars, sceneVars >>

\* batch.End(); EndFrame(waitForVSync); if (ConsumeBreakpointRequest()) break;
Run_End ==
    /\ pc = "End"
    /\ frameLog' = Append(frameLog, BatchCall("End"))
    /\ breakRequested' = FALSE
    /\ pc' = IF breakRequested THEN "AfterLoop" ELSE "PumpEvents"
    /\ lastOp' = "Run_End"
    /\ UNCHANGED << m_layers, g_time, accumulator, subSteps, rendererVars,
                    timerVars, sceneVars >>

\* after the loop: if (ConsumeBreakpointRequest()) AnnounceBreakpointStop()
Run_AfterLoop ==
    /\ pc = "AfterLoop"
    /\ breakRequested' = FALSE
    /\ pc' = "Returned"
    /\ lastOp' = "Returned"
    /\ UNCHANGED << m_layers, g_time, accumulator, subSteps, frameLog,
                    rendererVars, timerVars, sceneVars >>

NextRun ==
    \/ \E layer \in Layers \cup {Null} : PushLayer(layer)
    \/ Run_Enter
    \/ RequestBreakpoint
    \/ \E quit \in BOOLEAN, cb \in Callbacks : Run_PumpEvents(quit, cb)
    \/ Run_LoopTop
    \/ \E rawDt \in RawDts : Run_TimeStep(rawDt)
    \/ \E cb \in Callbacks : Run_FixedRound(cb)
    \/ Run_FixedDone
    \/ \E cb \in Callbacks : Run_OnUpdate(cb)
    \/ Run_Begin
    \/ \E cb \in Callbacks : Run_OnRender(cb)
    \/ Run_UI
    \/ Run_End
    \/ Run_AfterLoop

SpecRun == Init /\ [][NextRun]_vars

\* ---------------------------------------------------------------------
\* ComponentStore and Scene2D. Positions of the arrays are counted from 1.
\* A std::unordered_map is a function from the keys it holds.  A rectangle
\* has whole coordinates; the width and the height of a sprite are even, so
\* that half of them is exact.
\* ---------------------------------------------------------------------
MaxID == 3

MaxEntities == 3

MaxRendered == 2

EntityIDs == 1..MaxID

\* unordered_map::emplace: an existing key keeps its value
Emplace(map, key, value) ==
    IF key \in DOMAIN map THEN map
    ELSE [k \in DOMAIN map \cup {key} |-> IF k = key THEN value ELSE map[k]]

\* unordered_map::operator[] followed by an assignment
Assign(map, key, value) ==
    [k \in DOMAIN map \cup {key} |-> IF k = key THEN value ELSE map[k]]

\* unordered_map::erase
Erase(map, key) == [k \in DOMAIN map \ {key} |-> map[k]]

\* std::vector::pop_back
PopBack(v) == SubSeq(v, 1, Len(v) - 1)

\* ComponentStore::Add: the store after the call (the reference returned is
\* the component at m_sparse[id])
Add(store, id, value) ==
    IF id \in DOMAIN store.m_sparse THEN store
    ELSE [m_dense |-> Append(store.m_dense, value),
          m_denseEntities |-> Append(store.m_denseEntities, id),
          m_sparse |-> Emplace(store.m_sparse, id, Len(store.m_dense) + 1)]

\* ComponentStore::TryGet: << >> for nullptr, else the component pointed to
TryGet(store, id) ==
    IF id \notin DOMAIN store.m_sparse THEN << >>
    ELSE << store.m_dense[store.m_sparse[id]] >>

\* (variant: the index entry of the moved element is not fixed)
Remove_NoFixUp(store, id) ==
    IF id \notin DOMAIN store.m_sparse THEN store
    ELSE LET index == store.m_sparse[id]
             last == Len(store.m_dense)
             dense == IF index # last
                      THEN [store.m_dense EXCEPT ![index] = store.m_dense[last]]
                      ELSE store.m_dense
             entities == IF index # last
                         THEN [store.m_denseEntities EXCEPT
                                  ![index] = store.m_denseEntities[last]]
                         ELSE store.m_denseEntities
         IN [m_dense |-> PopBack(dense),
             m_denseEntities |-> PopBack(entities),
             m_sparse |-> Erase(store.m_sparse, id)]

\* ComponentStore::Remove
Remove(store, id) ==
    IF id \notin DOMAIN store.m_sparse THEN store
    ELSE LET index == store.m_sparse[id]
             last == Len(store.m_dense)
             dense == IF index # last
                      THEN [store.m_dense EXCEPT ![index] = store.m_dense[last]]
                      ELSE store.m_dense
             entities == IF index # last
                         THEN [store.m_denseEntities EXCEPT
                                  ![index] = store.m_denseEntities[last]]
                         ELSE store.m_denseEntities
             sparse == IF index # last
                       THEN Assign(store.m_sparse, entities[index], index)
                       ELSE store.m_sparse
         IN [m_dense |-> PopBack(dense),
             m_denseEntities |-> PopBack(entities),
             m_sparse |-> Erase(sparse, id)]

\* textures a sprite component may point to
SpriteTextures == {Null, "A", "Bad"}

\* SpriteRenderer2D: the texture pointer, the local rectangle and the layer
SpriteRenderer2D(texture) ==
    [texture |-> texture, layer |-> 0,
     dst |-> [x |-> 0, y |-> 0, w |-> 2, h |-> 2]]

\* positions a caller gives to an entity
Positions == {[x |-> 1, y |-> 1], [x |-> 5, y |-> 1]}

\* Entity2D after emplace_back and the assignments of CreateEntity
Entity2D(id) ==
    [id |-> id, active |-> TRUE,
     transform |-> [scale |-> [x |-> 1, y |-> 1], position |-> [x |-> 0, y |-> 0]]]

\* the visibleRect pointer a caller passes to Render: << >> for nullptr
VisibleRects == {<< >>, << [x |-> 0, y |-> 0, w |-> 4, h |-> 4] >>}

sceneUnchanged == << rendererVars, timerVars, runVars >>

\* Sprites().Add(id, value)
Sprites_Add(id, value) ==
    /\ Len(m_sprites.m_dense) < MaxEntities
    /\ m_sprites' = Add(m_sprites, id, value)
    /\ sceneArg' = id
    /\ lastOp' = "Add"
    /\ UNCHANGED << m_nextID, m_entities, m_entityIndex, renderCalls,
                    sceneUnchanged >>

\* a write through the reference Add or the pointer TryGet returned
Sprites_Write(id, value) ==
    /\ id \in DOMAIN m_sprites.m_sparse
    /\ m_sprites' = [m_sprites EXCEPT !.m_dense[m_sprites.m_sparse[id]] = value]
    /\ sceneArg' = id
    /\ lastOp' = "Write"
    /\ UNCHANGED << m_nextID, m_entities, m_entityIndex, renderCalls,
                    sceneUnchanged >>

\* Sprites().Remove(id)
Sprites_Remove(id) ==
    /\ m_sprites' = Remove(m_sprites, id)
    /\ sceneArg' = id
    /\ lastOp' = "Remove"
    /\ UNCHANGED << m_nextID, m_entities, m_entityIndex, renderCalls,
                    sceneUnchanged >>

\* Sprites().Clear()
Sprites_Clear ==
    /\ m_sprites' = EmptyStore
    /\ sceneArg' = 0
    /\ lastOp' = "StoreClear"
    /\ UNCHANGED << m_nextID, m_entities, m_entityIndex, renderCalls,
                    sceneUnchanged >>

\* Scene2D::CreateEntity
CreateEntity ==
    /\ Len(m_entities) < MaxEntities
    /\ m_nextID <= MaxID
    /\ m_entities' = Append(m_entities, Entity2D(m_nextID))
    /\ m_nextID' = m_nextID + 1
    /\ m_entityIndex' = Emplace(m_entityIndex, m_nextID, Len(m_entities) + 1)
    /\ sceneArg' = m_nextID
    /\ lastOp' = "CreateEntity"
    /\ UNCHANGED << m_sprites, renderCalls, sceneUnchanged >>

\* Scene2D::CreateEntityWithID
CreateEntityWithID(forcedId) ==
    /\ Len(m_entities) < MaxEntities
    /\ m_entities' = Append(m_entities, Entity2D(forcedId))
    /\ m_entityIndex' = Emplace(m_entityIndex, forcedId, Len(m_entities) + 1)
    /\ m_nextID' = IF forcedId >= m_nextID THEN forcedId + 1 ELSE m_nextID
    /\ sceneArg' = forcedId
    /\ lastOp' = "CreateEntityWithID"
    /\ UNCHANGED << m_sprites, renderCalls, sceneUnchanged >>

\* Scene2D::RemoveEntityAtSwapIndex: the array and the map after the call
RemoveEntityAtSwapIndex(entities, entityIndex, index) ==
    LET last == Len(entities)
        moved == IF index # last
                 THEN [entities EXCEPT ![index] = entities[last]]
                 ELSE entities
    IN [m_entities |-> PopBack(moved),
        m_entityIndex |-> IF index # last
                          THEN Assign(entityIndex, moved[index].id, index)
                          ELSE entityIndex]

\* Scene2D::DestroyEntity
DestroyEntity(id) ==
    /\ IF id \notin DOMAIN m_entityIndex
       THEN UNCHANGED << m_entities, m_entityIndex, m_sprites >>
       ELSE LET index == m_entityIndex[id]
                after == RemoveEntityAtSwapIndex(
                             [m_entities EXCEPT ![index].active = FALSE],
                             Erase(m_entityIndex, id), index)
            IN /\ m_sprites' = Remove(m_sprites, id)
               /\ m_entities' = after.m_entities
               /\ m_entityIndex' = after.m_entityIndex
    /\ sceneArg' = id
    /\ lastOp' = "DestroyEntity"
    /\ UNCHANGED << m_nextID, renderCalls, sceneUnchanged >>

\* Scene2D::Clear
Clear ==
    /\ m_entities' = << >>
    /\ m_sprites' = EmptyStore
    /\ m_entityIndex' = NoIndex
    /\ m_nextID' = 1
    /\ sceneArg' = 0
    /\ lastOp' = "Clear"
    /\ UNCHANGED << renderCalls, sceneUnchanged >>

\* Scene2D::FindEntity: << >> for nullptr, else the entity pointed to
FindEntity(id) ==
    IF id \notin DOMAIN m_entityIndex THEN << >>
    ELSE << m_entities[m_entityIndex[id]] >>

\* a caller writes active and transform.position through the Entity2D& it
\* holds (the element of Entities() at position index)
WriteEntity(index, active, position) ==
    /\ index \in DOMAIN m_entities
    /\ m_entities' = [m_entities EXCEPT ![index].active = active,
                                        ![index].transform.position = position]
    /\ sceneArg' = index
    /\ lastOp' = "WriteEntity"
    /\ UNCHANGED << m_nextID, m_entityIndex, m_sprites, renderCalls,
                    sceneUnchanged >>

\* the lambda intersects of Scene2D::Render
Intersects(a, b) ==
    /\ a.x < b.x + b.w
    /\ a.x + a.w > b.x
    /\ a.y < b.y + b.h
    /\ a.y + a.h > b.y

\* the destination rectangle Render computes for an entity and its sprite
RenderDst(entity, spr) ==
    LET w == spr.dst.w * entity.transform.scale.x
        h == spr.dst.h * entity.transform.scale.y
    IN [x |-> entity.transform.position.x - (w \div 2),
        y |-> entity.transform.position.y - (h \div 2), w |-> w, h |-> h]

\* the calls Render makes on the batch for the entities from position i on
RECURSIVE RenderCallsFrom(_, _)
RenderCallsFrom(i, visibleRect) ==
    IF i > Len(m_entities) THEN << >>
    ELSE LET entity == m_entities[i]
             spr == TryGet(m_sprites, entity.id)
             rest == RenderCallsFrom(i + 1, visibleRect)
         IN IF ~entity.active THEN rest
            ELSE IF spr = << >> THEN rest
            ELSE IF spr[1].texture = Null THEN rest
            ELSE IF srv[spr[1].texture] = NoSRV THEN rest
            ELSE IF visibleRect # << >>
                    /\ ~Intersects(RenderDst(entity, spr[1]), visibleRect[1])
            THEN << [texture |-> spr[1].texture, layer |-> spr[1].layer,
                     call |-> "RecordSpriteCulled", entity |-> i] >>
                 \o rest
            ELSE << [texture |-> spr[1].texture, layer |-> spr[1].layer,
                     call |-> "Push", entity |-> i] >>
                 \o rest

\* the calls named call among a sequence of calls, in order
RECURSIVE OnlyCalls(_, _)
OnlyCalls(callSeq, call) ==
    IF callSeq = << >> THEN << >>
    ELSE IF Head(callSeq).call = call
    THEN << Head(callSeq) >> \o OnlyCalls(Tail(callSeq), call)
    ELSE OnlyCalls(Tail(callSeq), call)

\* (variant: RecordSpriteCulled has the guard of Push)
BatchAfterRender_GuardedCull(callSeq) ==
    LET pushes == OnlyCalls(callSeq, "Push")
        culled == IF m_isDrawing
                  THEN Len(OnlyCalls(callSeq, "RecordSpriteCulled")) ELSE 0
        ids == {calls + k : k \in 1..Len(pushes)}
    IN [m_commands |->
            IF ~m_isDrawing THEN m_commands
            ELSE m_commands \o
                 [k \in 1..Len(pushes) |->
                     [texture |-> pushes[k].texture, layer |-> pushes[k].layer,
                      id |-> calls + k]],
        m_stats |->
            [m_stats EXCEPT
                !.spritesSubmitted = IF m_isDrawing THEN @ + Len(pushes) ELSE @,
                !.spritesCulled = @ + culled],
        calls |-> calls + Len(callSeq),
        rejected |-> IF m_isDrawing THEN rejected ELSE rejected \cup ids]

\* the batch after the calls of Render: SpriteBatch2D::Push and
\* SpriteBatch2D::RecordSpriteCulled applied in order
BatchAfterRender(callSeq) ==
    LET pushes == OnlyCalls(callSeq, "Push")
        culled == Len(OnlyCalls(callSeq, "RecordSpriteCulled"))
        ids == {calls + k : k \in 1..Len(pushes)}
    IN [m_commands |->
            IF ~m_isDrawing THEN m_commands
            ELSE m_commands \o
                 [k \in 1..Len(pushes) |->
                     [texture |-> pushes[k].texture, layer |-> pushes[k].layer,
                      id |-> calls + k]],
        m_stats |->
            [m_stats EXCEPT
                !.spritesSubmitted = IF m_isDrawing THEN @ + Len(pushes) ELSE @,
                !.spritesCulled = @ + culled],
        calls |-> calls + Len(callSeq),
        rejected |-> IF m_isDrawing THEN rejected ELSE rejected \cup ids]

\* Scene2D::Render(batch, visibleRect), collision debug drawing off
Render(visibleRect) ==
    /\ phase = "ready"
    /\ LET callSeq == RenderCallsFrom(1, visibleRect)
           after == BatchAfterRender(callSeq)
       IN /\ after.calls <= MaxCalls
          /\ renderCalls' = callSeq
          /\ m_commands' = after.m_commands
          /\ m_stats' = after.m_stats
          /\ rejected' = after.rejected
          /\ calls' = after.calls
    /\ sceneArg' = Len(visibleRect)
    /\ lastOp' = "Render"
    /\ UNCHANGED << phase, srv, m_isDrawing, m_geometryCommands,
                    m_unifiedCommands, m_drawRanges, m_vertexScratch,
                    m_vertexCapacity, m_indexCapacity, m_vertexBuffer,
                    m_indexBuffer, m_viewProjT, cbViewProjT, gpuDraws,
                    endResult, ends, frames, callerArrays,
                    m_nextID, m_entities, m_entityIndex, m_sprites,
                    timerVars, runVars >>

\* a sprite store used on its own
NextStore ==
    \/ \E id \in EntityIDs, texture \in SpriteTextures :
          Sprites_Add(id, SpriteRenderer2D(texture))
    \/ \E id \in EntityIDs, texture \in SpriteTextures :
          Sprites_Write(id, SpriteRenderer2D(texture))
    \/ \E id \in EntityIDs : Sprites_Remove(id)
    \/ Sprites_Clear

SpecStore == Init /\ [][NextStore]_vars

\* a scene whose entities are created and destroyed
NextScene ==
    \/ CreateEntity
    \/ \E forcedId \in EntityIDs : CreateEntityWithID(forcedId)
    \/ \E id \in EntityIDs : DestroyEntity(id)
    \/ Clear
    \/ \E id \in EntityIDs, texture \in {"A"} :
          Sprites_Add(id, SpriteRenderer2D(texture))

SpecScene == Init /\ [][NextScene]_vars

\* a scene that is populated and rendered: the caller creates up to
\* MaxRendered entities, writes the entity it has just created and gives
\* sprites to the ids in ascending order
NextRender ==
    \/ \E createVB \in {TRUE}, createIB \in {TRUE} : BatchInit(createVB, createIB)
    \/ \E viewProjT \in {1} : Begin(viewProjT)
    \/ Len(m_entities) < MaxRendered /\ CreateEntity
    \/ \E id \in {Len(m_sprites.m_dense) + 1} \cap 1..MaxRendered,
           texture \in SpriteTextures :
          Sprites_Add(id, SpriteRenderer2D(texture))
    \/ \E index \in {Len(m_entities)}, active \in BOOLEAN, position \in Positions :
          WriteEntity(index, active, position)
    \/ \E visibleRect \in VisibleRects : Render(visibleRect)

SpecRender == Init /\ [][NextRender]_vars

\* ---------------------------------------------------------------------
\* Vocabulary of the properties
\* ---------------------------------------------------------------------
RECURSIVE SumFn(_, _)
SumFn(f, n) == IF n = 0 THEN 0 ELSE f[n] + SumFn(f, n - 1)

SumOf(f) == SumFn(f, Len(f))

\* End returned after the build loop ran
BuiltOutcomes == {"vertexMapFailed", "indexMapFailed", "drawn"}

AllocFailures == {"vertexAllocFailed", "indexAllocFailed"}

\* a step of End: the only operation that leaves the drawing state
EndStep == m_isDrawing /\ ~m_isDrawing'

EmittedVertices == SumOf([i \in 1..Len(m_vertexScratch) |-> m_vertexScratch[i].vertexCount])

EmittedIndices == SumOf([i \in 1..Len(m_vertexScratch) |-> m_vertexScratch[i].indexCount])

\* ids of the commands that are in the lists (after End: the survivors)
SpriteIds == {m_commands[i].id : i \in 1..Len(m_commands)}

GeometryIds == {m_geometryCommands[i].id : i \in 1..Len(m_geometryCommands)}

SpriteOf(id) == m_commands[CHOOSE i \in 1..Len(m_commands) : m_commands[i].id = id]

GeometryOf(id) ==
    m_geometryCommands[CHOOSE i \in 1..Len(m_geometryCommands) :
                           m_geometryCommands[i].id = id]

LayerOf(id) == IF id \in SpriteIds THEN SpriteOf(id).layer ELSE GeometryOf(id).layer

\* positions of the scratch segments emitted for submission id
SegmentsOf(id) == {k \in 1..Len(m_vertexScratch) : m_vertexScratch[k].id = id}

\* the draw calls whose index interval holds the whole segment k
DrawsOf(k) ==
    {i \in 1..Len(gpuDraws) :
        /\ gpuDraws[i].firstIndex <= m_vertexScratch[k].indexBase
        /\ m_vertexScratch[k].indexBase + m_vertexScratch[k].indexCount
              <= gpuDraws[i].firstIndex + gpuDraws[i].indexCount}

\* a texture handle that End can resolve
Resolvable(texture) == texture # Null /\ srv[texture] # NoSRV

SurvivingSprites ==
    {i \in 1..Len(m_commands) : Resolvable(m_commands[i].texture)}

SurvivingGeometry ==
    {i \in 1..Len(m_geometryCommands) :
        /\ Resolvable(m_geometryCommands[i].texture)
        /\ m_geometryCommands[i].vertexCount > 0
        /\ m_geometryCommands[i].indexCount > 0}

ExpectedVertices ==
    4 * Cardinality(SurvivingSprites)
    + SumOf([i \in 1..Len(m_geometryCommands) |->
                IF i \in SurvivingGeometry THEN m_geometryCommands[i].vertexCount
                ELSE 0])

ExpectedIndices ==
    6 * Cardinality(SurvivingSprites)
    + SumOf([i \in 1..Len(m_geometryCommands) |->
                IF i \in SurvivingGeometry THEN m_geometryCommands[i].indexCount
                ELSE 0])

\* the list s without its i-th element
Without(s, i) == SubSeq(s, 1, i - 1) \o SubSeq(s, i + 1, Len(s))

\* the step is the End of a frame whose lists were cmds and geos
EndAsIfSubmitted(cmds, geos) ==
    \E dev \in DeviceAnswers :
        LET w == EndOutcome(cmds, geos, m_vertexCapacity, m_vertexBuffer,
                            m_indexCapacity, m_indexBuffer, dev)
        IN /\ w.outcome = endResult'.outcome
           /\ w.commands = m_commands'
           /\ w.geometry = m_geometryCommands'
           /\ w.draws = gpuDraws'
           /\ w.built => /\ w.scratch = m_vertexScratch'
                         /\ w.ranges = m_drawRanges'
           /\ ~w.built => UNCHANGED << m_vertexScratch, m_drawRanges >>

\* the smallest capacity * 2^k that holds count elements
Doubled(capacity, count) ==
    CHOOSE c \in {capacity, 2 * capacity, 4 * capacity, 8 * capacity} :
        c >= count /\ (c = capacity \/ c < 2 * count)

\* ---------------------------------------------------------------------
\* C1: after an End that reached the build step the draw ranges partition
\* the emitted index range: the first range starts at index 0, every
\* following range starts where the previous one ends, and the index counts
\* sum to the number of emitted indices.
\* ---------------------------------------------------------------------
C1_RangesPartitionIndices ==
    (phase = "ready" /\ endResult.outcome \in BuiltOutcomes) =>
        /\ m_drawRanges # << >>
        /\ m_drawRanges[1].firstIndex = 0
        /\ \A i \in 2..Len(m_drawRanges) :
              m_drawRanges[i].firstIndex =
                 m_drawRanges[i - 1].firstIndex + m_drawRanges[i - 1].indexCount
        /\ SumOf([i \in 1..Len(m_drawRanges) |-> m_drawRanges[i].indexCount])
              = EmittedIndices
        /\ EmittedIndices = endResult.indexCursor

C1_Witness ==
    /\ phase = "ready"
    /\ endResult.outcome = "drawn"
    /\ Len(m_drawRanges) >= 2
    /\ Len(m_vertexScratch) > Len(m_drawRanges)
    /\ \E k \in 1..Len(m_vertexScratch) : ~m_vertexScratch[k].isSprite

\* ---------------------------------------------------------------------
\* C2: lower layers draw first: the draw calls follow the draw-range list,
\* whose layers never decrease, and of two surviving commands the one with
\* the strictly lower layer lies in an earlier draw call.
\* ---------------------------------------------------------------------
C2_LowerLayersDrawFirst ==
    (lastOp = "End" /\ endResult.outcome = "drawn") =>
        /\ Len(gpuDraws) = Len(m_drawRanges)
        /\ \A i \in 1..Len(gpuDraws) :
              /\ gpuDraws[i].firstIndex = m_drawRanges[i].firstIndex
              /\ gpuDraws[i].indexCount = m_drawRanges[i].indexCount
        /\ \A i \in 1..Len(m_drawRanges), j \in 1..Len(m_drawRanges) :
              i < j => m_drawRanges[i].layer <= m_drawRanges[j].layer
        /\ \A x \in SpriteIds \cup GeometryIds :
              /\ Cardinality(SegmentsOf(x)) = 1
              /\ \A k \in SegmentsOf(x) : Cardinality(DrawsOf(k)) = 1
        /\ \A x \in SpriteIds \cup GeometryIds, y \in SpriteIds \cup GeometryIds :
              LayerOf(x) < LayerOf(y) =>
                 \A kx \in SegmentsOf(x), ky \in SegmentsOf(y) :
                    \A i \in DrawsOf(kx), j \in DrawsOf(ky) : i < j

\* a geometry command of layer 1 submitted before a sprite of layer 0
C2_Witness ==
    /\ lastOp = "End"
    /\ endResult.outcome = "drawn"
    /\ \E x \in GeometryIds, y \in SpriteIds :
          /\ x < y
          /\ LayerOf(y) < LayerOf(x)
          /\ srv[GeometryOf(x).texture] < srv[SpriteOf(y).texture]

\* ---------------------------------------------------------------------
\* C3: an End that reaches the build step emits 4 vertices and 6 indices
\* per sprite that passes the filter, plus the vertex and index counts of
\* every geometry command that passes it; the cursors end at these totals.
\* ---------------------------------------------------------------------
C3_EmittedCounts ==
    [][(EndStep /\ endResult'.outcome \in BuiltOutcomes) =>
          /\ endResult'.vertexCursor = ExpectedVertices
          /\ endResult'.indexCursor = ExpectedIndices
          /\ EmittedVertices' = ExpectedVertices
          /\ EmittedIndices' = ExpectedIndices]_vars

\* a frame of sprites and geometry, one of them filtered, was built
C3_Witness ==
    /\ lastOp = "End"
    /\ endResult.outcome \in BuiltOutcomes
    /\ SpriteIds # {}
    /\ GeometryIds # {}
    /\ m_stats.spritesSubmitted > Cardinality(SpriteIds)
    /\ endResult.vertexCursor = 4 * Cardinality(SpriteIds)
          + SumOf([i \in 1..Len(m_geometryCommands) |->
                      m_geometryCommands[i].vertexCount])

\* ---------------------------------------------------------------------
\* C4: a command whose texture is null or unresolvable at End contributes no
\* vertices and no indices, and End leaves the scratch arrays, the draw
\* ranges, the draw calls and the surviving lists exactly as it would had
\* the command never been submitted.
\* ---------------------------------------------------------------------
C4_DroppedCommandInvisible ==
    [][EndStep =>
          /\ \A i \in 1..Len(m_commands) :
                ~Resolvable(m_commands[i].texture) =>
                   /\ \A k \in 1..Len(m_vertexScratch') :
                         m_vertexScratch'[k].id # m_commands[i].id
                   /\ EndAsIfSubmitted(Without(m_commands, i), m_geometryCommands)
          /\ \A j \in 1..Len(m_geometryCommands) :
                ~Resolvable(m_geometryCommands[j].texture) =>
                   /\ \A k \in 1..Len(m_vertexScratch') :
                         m_vertexScratch'[k].id # m_geometryCommands[j].id
                   /\ EndAsIfSubmitted(m_commands, Without(m_geometryCommands, j))]_vars

\* three sprites were pushed, the middle one was dropped, the others drawn
C4_Witness ==
    /\ lastOp = "End"
    /\ endResult.outcome = "drawn"
    /\ m_stats.spritesSubmitted = 3
    /\ \E x \in SpriteIds : SpriteIds = {x, x + 2}
    /\ Len(m_vertexScratch) = 2

\* ---------------------------------------------------------------------
\* C5: of two sprites of one frame with the same layer and the same texture
\* the one pushed first is emitted at the lower vertex and index position.
\* ---------------------------------------------------------------------
C5_SpriteStability ==
    (lastOp = "End" /\ endResult.outcome \in BuiltOutcomes) =>
        \A x \in SpriteIds, y \in SpriteIds :
            (/\ x < y
             /\ SpriteOf(x).layer = SpriteOf(y).layer
             /\ SpriteOf(x).texture = SpriteOf(y).texture) =>
                /\ SegmentsOf(x) # {}
                /\ SegmentsOf(y) # {}
                /\ \A kx \in SegmentsOf(x), ky \in SegmentsOf(y) :
                      /\ m_vertexScratch[kx].vertexBase < m_vertexScratch[ky].vertexBase
                      /\ m_vertexScratch[kx].indexBase < m_vertexScratch[ky].indexBase

\* two sprites of one layer and texture with a surviving command of another
\* state pushed in between
C5_Witness ==
    /\ lastOp = "End"
    /\ endResult.outcome \in BuiltOutcomes
    /\ \E x \in SpriteIds :
          /\ x + 2 \in SpriteIds
          /\ SpriteOf(x).layer = SpriteOf(x + 2).layer
          /\ SpriteOf(x).texture = SpriteOf(x + 2).texture
          /\ x + 1 \in SpriteIds \cup GeometryIds
          /\ \A k \in SegmentsOf(x + 1) : k = 1 \/ k = 3

\* ---------------------------------------------------------------------
\* C6: between Init and Shutdown the vertex capacity and the index capacity
\* never decrease, whatever the frames submit and however End returns.
\* ---------------------------------------------------------------------
C6_CapacityMonotonic ==
    [][(phase = "ready" /\ phase' = "ready") =>
          /\ m_vertexCapacity' >= m_vertexCapacity
          /\ m_indexCapacity' >= m_indexCapacity]_vars

\* a small frame was drawn after a frame that made both buffers grow
C6_Witness ==
    /\ phase = "ready"
    /\ lastOp = "End"
    /\ endResult.outcome = "drawn"
    /\ endResult.vertexCursor < VertexBaseline
    /\ m_vertexCapacity > VertexBaseline
    /\ m_indexCapacity > IndexBaseline

\* ---------------------------------------------------------------------
\* C7: an End whose buffer allocation fails issues no draw call, keeps the
\* capacity and the buffer whose allocation failed, and leaves the drawing
\* state; the End of the following frame fails on allocation only when its
\* data does not fit, and when it draws it draws every range, with a
\* capacity grown by doubling from the previous successful capacity.
\* ---------------------------------------------------------------------
C7_AllocationFailure ==
    [][EndStep =>
          /\ endResult'.outcome = "vertexAllocFailed" =>
                /\ gpuDraws' = << >>
                /\ m_stats'.drawCalls = 0
                /\ ~m_isDrawing'
                /\ ExpectedVertices > m_vertexCapacity
                /\ UNCHANGED << m_vertexCapacity, m_vertexBuffer,
                                m_indexCapacity, m_indexBuffer >>
          /\ endResult'.outcome = "indexAllocFailed" =>
                /\ gpuDraws' = << >>
                /\ m_stats'.drawCalls = 0
                /\ ~m_isDrawing'
                /\ ExpectedIndices > m_indexCapacity
                /\ UNCHANGED << m_indexCapacity, m_indexBuffer >>
          /\ (endResult.outcome \in AllocFailures /\ endResult'.outcome = "drawn") =>
                /\ Len(gpuDraws') = Len(m_drawRanges')
                /\ Len(gpuDraws') >= 1
                /\ m_stats'.drawCalls = Len(gpuDraws')
                /\ EmittedVertices' = ExpectedVertices
                /\ EmittedIndices' = ExpectedIndices
                /\ m_vertexCapacity' = Doubled(m_vertexCapacity, ExpectedVertices)
                /\ m_indexCapacity' = Doubled(m_indexCapacity, ExpectedIndices)
                /\ m_vertexBuffer' = m_vertexCapacity'
                /\ m_indexBuffer' = m_indexCapacity']_vars

\* a frame was drawn after a frame whose index buffer allocation failed
\* (the vertex buffer had grown, the index buffer has not)
C7_Witness ==
    /\ lastOp = "End"
    /\ endResult.outcome = "drawn"
    /\ frames = 2
    /\ m_vertexCapacity = 2 * VertexBaseline
    /\ m_indexCapacity = IndexBaseline

\* ---------------------------------------------------------------------
\* C8: Push and PushGeometryRaw called while no frame is open change
\* nothing in the batch, and nothing of these calls is in a command list or
\* in the emitted data of any later End.
\* ---------------------------------------------------------------------
C8_PushOutsideFrame ==
    /\ [][(~m_isDrawing /\ calls' = calls + 1) => UNCHANGED batchVars]_vars
    /\ [](/\ SpriteIds \cap rejected = {}
          /\ GeometryIds \cap rejected = {}
          /\ \A k \in 1..Len(m_vertexScratch) : m_vertexScratch[k].id \notin rejected)

\* calls before the first Begin and after the first End, then a frame that
\* draws
C8_Witness ==
    /\ rejected = {1, 2}
    /\ frames = 2
    /\ lastOp = "End"
    /\ endResult.outcome = "drawn"
    /\ SpriteIds \cup GeometryIds = {3}

\* ---------------------------------------------------------------------
\* C9: a Begin called while a frame is open leaves the submitted sprite and
\* geometry commands, the statistics and the stored transform unchanged.
\* ---------------------------------------------------------------------
C9_NestedBeginIgnored ==
    [][(m_isDrawing /\ frames' = frames + 1) =>
          UNCHANGED << m_commands, m_geometryCommands, m_stats, m_viewProjT >>]_vars

\* ---------------------------------------------------------------------
\* C10: every draw range produced by End has an index count that is
\* positive and a multiple of 3.
\* ---------------------------------------------------------------------
C10_IndexCountMultipleOf3 ==
    (phase = "ready" /\ endResult.outcome \in BuiltOutcomes) =>
        \A i \in 1..Len(m_drawRanges) :
            /\ m_drawRanges[i].indexCount > 0
            /\ m_drawRanges[i].indexCount % 3 = 0

\* ---------------------------------------------------------------------
\* Vocabulary of the texture-batching properties
\* ---------------------------------------------------------------------
\* the latest End closed a frame that holds sprites only, all of them with
\* a resolvable texture
SpriteOnlyFrame ==
    /\ lastOp = "End"
    /\ m_geometryCommands = << >>
    /\ m_commands # << >>
    /\ m_stats.spritesSubmitted = Len(m_commands)

LayerTexturePairs ==
    {<< m_commands[i].layer, m_commands[i].texture >> : i \in 1..Len(m_commands)}

RangesOf(texture) ==
    {i \in 1..Len(m_drawRanges) : m_drawRanges[i].texture = texture}

PushesOf(texture) ==
    {i \in 1..Len(m_commands) : m_commands[i].texture = texture}

\* every push of a comes before every push of b
PushedBefore(a, b) ==
    /\ PushesOf(a) # {}
    /\ PushesOf(b) # {}
    /\ \A i \in PushesOf(a), j \in PushesOf(b) : i < j

\* every range of a is drawn before every range of b
RangePrecedes(a, b) ==
    /\ RangesOf(a) # {}
    /\ RangesOf(b) # {}
    /\ \A i \in RangesOf(a), j \in RangesOf(b) :
          /\ i < j
          /\ m_drawRanges[i].firstIndex < m_drawRanges[j].firstIndex
          /\ gpuDraws # << >> => gpuDraws[i].firstIndex < gpuDraws[j].firstIndex

OneLayer == \A i \in 1..Len(m_commands) : m_commands[i].layer = m_commands[1].layer

\* ---------------------------------------------------------------------
\* C11: an End that draws a frame of sprites with valid textures produces
\* exactly one draw range and one draw call per distinct (layer, texture)
\* pair of the frame, however the pushes are interleaved.
\* ---------------------------------------------------------------------
C11_OneRangePerLayerTexture ==
    (SpriteOnlyFrame /\ endResult.outcome = "drawn") =>
        /\ Len(m_drawRanges) = Cardinality(LayerTexturePairs)
        /\ Len(gpuDraws) = Cardinality(LayerTexturePairs)
        /\ m_stats.drawCalls = Cardinality(LayerTexturePairs)

\* ---------------------------------------------------------------------
\* C12 (as claimed): in a frame of sprites of one layer, if every sprite of
\* texture a is pushed before every sprite of texture b, the draw range of a
\* precedes the draw range of b, for every two distinct valid handles.
\* ---------------------------------------------------------------------
C12_SubmissionOrderDecides ==
    (SpriteOnlyFrame /\ OneLayer /\ endResult.outcome \in BuiltOutcomes) =>
        \A a \in Textures, b \in Textures :
            (a # b /\ PushedBefore(a, b)) => RangePrecedes(a, b)

\* ---------------------------------------------------------------------
\* C12 (amended): in a frame of sprites of one layer the draw ranges of two
\* textures follow the addresses of their shader resource views: the ranges
\* of the texture with the lower address come first, whatever the order of
\* the pushes; the order of the pushes decides only between two handles of
\* equal address.
\* ---------------------------------------------------------------------
C12_AddressOrderDecides ==
    (SpriteOnlyFrame /\ OneLayer /\ endResult.outcome \in BuiltOutcomes) =>
        \A a \in Textures, b \in Textures :
            /\ (PushesOf(a) # {} /\ PushesOf(b) # {} /\ srv[a] < srv[b])
                  => RangePrecedes(a, b)
            /\ (a # b /\ srv[a] = srv[b] /\ PushedBefore(a, b))
                  => RangePrecedes(a, b)

\* texture a was pushed before texture b, b has the lower address and its
\* range was drawn first
C12_Witness ==
    /\ SpriteOnlyFrame
    /\ OneLayer
    /\ endResult.outcome = "drawn"
    /\ \E a \in Textures, b \in Textures :
          /\ PushedBefore(a, b)
          /\ srv[b] < srv[a]
          /\ RangePrecedes(b, a)
          /\ Cardinality(PushesOf(a)) + Cardinality(PushesOf(b)) = 3

\* ---------------------------------------------------------------------
\* Vocabulary of the geometry properties
\* ---------------------------------------------------------------------
\* End returned without a failure of the device
NoDeviceFailure == {"empty", "nothing", "drawn"}

\* a stored geometry command that was submitted with a null texture (the
\* inputs name the textures A and B or no texture; Push-time substitution is
\* the only way the white texture enters a command)
SubmittedWithNullTexture(g) == g.texture \in {Null, "White"}

\* ---------------------------------------------------------------------
\* C13: a geometry command submitted through PushGeometryRaw with a null
\* texture and a zero-area clip rect is not dropped: an End that meets no
\* device failure emits it once and draws it in exactly one draw range, which
\* is bound to the white fallback texture and has useScissor = FALSE.
\* ---------------------------------------------------------------------
C13_NullTextureGeometryDrawnWhite ==
    [][(EndStep /\ endResult'.outcome \in NoDeviceFailure) =>
          \A j \in 1..Len(m_geometryCommands) :
              LET g == m_geometryCommands[j]
              IN (SubmittedWithNullTexture(g)
                    /\ (g.clipRect.w <= 0 \/ g.clipRect.h <= 0)) =>
                   /\ Cardinality(SegmentsOf(g.id)') = 1
                   /\ \A k \in SegmentsOf(g.id)' :
                         /\ Cardinality(DrawsOf(k)') = 1
                         /\ \A i \in DrawsOf(k)' :
                               /\ m_drawRanges'[i].texture = "White"
                               /\ ~m_drawRanges'[i].useScissor
                               /\ gpuDraws'[i].srv = srv["White"]
                               /\ gpuDraws'[i].srv # NoSRV
                               /\ ~gpuDraws'[i].scissorEnabled]_vars

\* ---------------------------------------------------------------------
\* C14: a Begin immediately followed by End, with no submission in between,
\* yields no draw range, no draw call and no map or upload of a buffer,
\* whatever the earlier frames of the session submitted and drew: End
\* returns at its test of the empty lists, before it rebuilds the draw-range
\* list (which it leaves untouched and does not draw from), the statistics
\* show 0 draw calls, and the constant, vertex and index buffers are as they
\* were.
\* ---------------------------------------------------------------------
C14_EmptyFrameDrawsNothing ==
    [][(EndStep /\ lastOp \in {"Begin", "NestedBegin"}) =>
          /\ endResult'.outcome = "empty"
          /\ m_drawRanges' = m_drawRanges
          /\ gpuDraws' = << >>
          /\ m_stats'.drawCalls = 0
          /\ endResult'.uploadedVertices = 0
          /\ endResult'.uploadedIndices = 0
          /\ UNCHANGED << cbViewProjT, m_vertexBuffer, m_indexBuffer,
                          m_vertexScratch >>]_vars

\* the second frame of a session was empty and its End drew nothing, after
\* a first frame that drew
C14_Witness ==
    /\ lastOp = "End"
    /\ frames = 2
    /\ endResult.outcome = "empty"
    /\ m_commands = << >>
    /\ m_geometryCommands = << >>
    /\ gpuDraws = << >>
    /\ m_stats.drawCalls = 0
    /\ m_drawRanges # << >>
    /\ cbViewProjT = 1

\* the step is an End that went past UpdateVSConstants and left the constant
\* buffer without the transform of the frame: the map of m_cbVS failed
\* (every Begin stores a transform no earlier frame had)
ConstantMapFailed ==
    /\ EndStep
    /\ endResult'.outcome \in BuiltOutcomes
    /\ cbViewProjT' # m_viewProjT

\* ---------------------------------------------------------------------
\* C15: if the map of the vertex buffer, of the index buffer or of the
\* per-frame constant buffer fails during End, the rest of that End is
\* aborted: no draw call is issued and the draw-call counter stays 0.
\* ---------------------------------------------------------------------
C15_MapFailureAbortsEnd ==
    [][(EndStep /\ (\/ endResult'.outcome \in {"vertexMapFailed", "indexMapFailed"}
                    \/ ConstantMapFailed)) =>
          /\ gpuDraws' = << >>
          /\ m_stats'.drawCalls = 0]_vars

\* ---------------------------------------------------------------------
\* C16: after End returns, the draw-call counter equals the number of draw
\* calls issued by that End alone: the number of draw ranges when End
\* completed, 0 when it returned early; every Begin resets the three
\* counters to 0, so that nothing carries over from an earlier frame.
\* ---------------------------------------------------------------------
C16_DrawCallsOfThisEnd ==
    /\ lastOp \in {"End", "StrayEnd"} =>
          /\ m_stats.drawCalls = Len(gpuDraws)
          /\ endResult.outcome = "drawn" => m_stats.drawCalls = Len(m_drawRanges)
          /\ endResult.outcome # "drawn" => m_stats.drawCalls = 0
    /\ lastOp \in {"Begin", "NestedBegin"} => m_stats = ZeroStats

\* ---------------------------------------------------------------------
\* Vocabulary of the clip properties
\* ---------------------------------------------------------------------
\* whole pixels of a half-pixel value, rounded toward zero
Trunc(h) ==
    CHOOSE n \in -16..16 :
        \/ h >= 0 /\ 2 * n <= h /\ h < 2 * n + 2
        \/ h < 0 /\ 2 * n - 2 < h /\ h <= 2 * n

\* the draw calls that draw submission id
DrawsOfId(id) == UNION {DrawsOf(k) : k \in SegmentsOf(id)}

LatestEndDrew == lastOp \in {"End", "StrayEnd"} /\ endResult.outcome = "drawn"

\* ---------------------------------------------------------------------
\* C17 (as claimed): every geometry command with a positive-area clip rect
\* is drawn in a range with the scissor enabled and a scissor rectangle equal
\* to its own clip rect (left = x, top = y, right = x + w, bottom = y + h);
\* every sprite and every geometry command without clip rect is drawn in a
\* range with the scissor disabled.
\* ---------------------------------------------------------------------
C17_ScissorEqualsClipRect ==
    LatestEndDrew =>
        /\ \A id \in SpriteIds : \A i \in DrawsOfId(id) :
              ~gpuDraws[i].scissorEnabled /\ ~m_drawRanges[i].useScissor
        /\ \A id \in GeometryIds :
              /\ DrawsOfId(id) # {}
              /\ \A i \in DrawsOfId(id) :
                    LET g == GeometryOf(id)
                        r == gpuDraws[i].scissorRect
                    IN IF g.clipRect.w > 0 /\ g.clipRect.h > 0
                       THEN /\ gpuDraws[i].scissorEnabled
                            /\ 2 * r.left = g.clipRect.x
                            /\ 2 * r.top = g.clipRect.y
                            /\ 2 * r.right = g.clipRect.x + g.clipRect.w
                            /\ 2 * r.bottom = g.clipRect.y + g.clipRect.h
                       ELSE ~gpuDraws[i].scissorEnabled

\* ---------------------------------------------------------------------
\* C17 (amended): every geometry command with a positive-area clip rect is
\* drawn in a range with the scissor enabled and a scissor rectangle equal
\* to its own clip rect with every bound rounded toward zero to whole pixels
\* (left = trunc(x), top = trunc(y), right = trunc(x + w),
\* bottom = trunc(y + h)); every sprite and every geometry command without
\* clip rect is drawn in a range with the scissor disabled; the range and the
\* draw call carry the same clip state.
\* ---------------------------------------------------------------------
C17_ScissorIsTruncatedClipRect ==
    LatestEndDrew =>
        /\ \A i \in 1..Len(gpuDraws) :
              /\ gpuDraws[i].scissorEnabled = m_drawRanges[i].useScissor
              /\ gpuDraws[i].scissorRect = m_drawRanges[i].scissorRect
        /\ \A id \in SpriteIds :
              /\ DrawsOfId(id) # {}
              /\ \A i \in DrawsOfId(id) : ~gpuDraws[i].scissorEnabled
        /\ \A id \in GeometryIds :
              /\ DrawsOfId(id) # {}
              /\ \A i \in DrawsOfId(id) :
                    LET g == GeometryOf(id)
                        r == gpuDraws[i].scissorRect
                    IN IF g.clipRect.w > 0 /\ g.clipRect.h > 0
                       THEN /\ gpuDraws[i].scissorEnabled
                            /\ r.left = Trunc(g.clipRect.x)
                            /\ r.top = Trunc(g.clipRect.y)
                            /\ r.right = Trunc(g.clipRect.x + g.clipRect.w)
                            /\ r.bottom = Trunc(g.clipRect.y + g.clipRect.h)
                       ELSE ~gpuDraws[i].scissorEnabled

\* a sprite was drawn without scissor and two geometry commands with
\* different clip rects of equal whole-pixel bounds were drawn in one range
C17_Witness ==
    /\ lastOp = "End"
    /\ endResult.outcome = "drawn"
    /\ SpriteIds # {}
    /\ \E x \in GeometryIds, y \in GeometryIds :
          /\ GeometryOf(x).hasClipRect
          /\ GeometryOf(y).hasClipRect
          /\ GeometryOf(x).clipRect # GeometryOf(y).clipRect
          /\ DrawsOfId(x) = DrawsOfId(y)
          /\ \E i \in DrawsOfId(x) :
                gpuDraws[i].scissorRect =
                   [left |-> 0, top |-> 0, right |-> 2, bottom |-> 2]

\* ---------------------------------------------------------------------
\* Vocabulary of the geometry data properties
\* ---------------------------------------------------------------------
\* the geometry commands of the list that hold a copy (PushGeometryRaw)
RawIds == {id \in GeometryIds : ~GeometryOf(id).view}

\* the geometry commands of the list that hold references (PushGeometryView)
ViewIds == {id \in GeometryIds : GeometryOf(id).view}

\* the step is a call of End that ran the build loop
EndBuilt == lastOp' \in {"End", "StrayEnd"} /\ endResult'.outcome \in BuiltOutcomes

\* ---------------------------------------------------------------------
\* C18: PushGeometryRaw copies the caller's vertex and index arrays at the
\* call: the command it appends holds the contents the arrays have at the
\* call, no later step (a write of the caller to its arrays included)
\* changes what a command of the list holds, and End emits for the command
\* the vertices it holds, unchanged, and the indices it holds, each
\* increased by the position of the command's first vertex in the frame's
\* vertex stream.
\* ---------------------------------------------------------------------
C18_RawGeometryIsCopied ==
    [][ /\ (lastOp' = "PushGeometryRaw"
              /\ Len(m_geometryCommands') = Len(m_geometryCommands) + 1) =>
            LET g == m_geometryCommands'[Len(m_geometryCommands')]
            IN /\ ~g.view
               /\ g.vertices = callerArrays.vertices
               /\ g.indices = callerArrays.indices
        /\ \A i \in 1..Len(m_geometryCommands), j \in 1..Len(m_geometryCommands') :
              (m_geometryCommands[i].id = m_geometryCommands'[j].id
                 /\ ~m_geometryCommands[i].view) =>
                 m_geometryCommands'[j] = m_geometryCommands[i]
        /\ EndBuilt =>
              \A i \in 1..Len(m_geometryCommands') :
                 LET g == m_geometryCommands'[i]
                     segs == {k \in 1..Len(m_vertexScratch') :
                                 m_vertexScratch'[k].id = g.id}
                 IN ~g.view =>
                      /\ Cardinality(segs) = 1
                      /\ \A k \in segs :
                            /\ m_vertexScratch'[k].vertices = g.vertices
                            /\ m_vertexScratch'[k].indices
                                  = m_vertexScratch'[k].vertexBase + g.indices
                            /\ m_vertexScratch'[k].vertexCount = g.vertexCount
                            /\ m_vertexScratch'[k].indexCount = g.indexCount
      ]_vars

\* End drew a copied geometry command behind a sprite, after the caller had
\* overwritten the arrays it passed: the emitted vertices are not the ones
\* the caller's arrays hold now
C18_Witness ==
    /\ lastOp = "End"
    /\ endResult.outcome = "drawn"
    /\ \E id \in RawIds : \E k \in SegmentsOf(id) :
          /\ m_vertexScratch[k].vertexBase > 0
          /\ m_vertexScratch[k].vertices = GeometryOf(id).vertices
          /\ m_vertexScratch[k].vertices # callerArrays.vertices
          /\ m_vertexScratch[k].indices
                # m_vertexScratch[k].vertexBase + callerArrays.indices
          /\ DrawsOfId(id) # {}

C20_UpdateOfRunningTimerProgresses ==
    [][ (lastOp' = "Update" /\ m_running) =>
           \/ /\ m_remaining' < m_remaining
              /\ m_remaining' > 0
              /\ m_running'
           \/ /\ m_remaining' = 0
              /\ ~m_running'
              /\ m_finished'
      ]_vars

\* ---------------------------------------------------------------------
\* Vocabulary of the sort properties
\* ---------------------------------------------------------------------
\* the latest End went through the sort step (its lists were not both empty)
LatestEndSorted == lastOp \in {"End", "StrayEnd"} /\ endResult.outcome # "empty"

\* the unified list names every filtered command exactly once
UnifiedIsPermutation ==
    /\ Len(m_unifiedCommands) = Len(m_commands) + Len(m_geometryCommands)
    /\ \A i \in 1..Len(m_commands) :
          \E k \in 1..Len(m_unifiedCommands) :
             m_unifiedCommands[k].isSprite /\ m_unifiedCommands[k].index = i
    /\ \A i \in 1..Len(m_geometryCommands) :
          \E k \in 1..Len(m_unifiedCommands) :
             ~m_unifiedCommands[k].isSprite /\ m_unifiedCommands[k].index = i

\* (x, y, w, h) of a before (x, y, w, h) of b, lexicographically
ClipRectBefore(a, b) ==
    \/ a.x < b.x
    \/ a.x = b.x /\ a.y < b.y
    \/ a.x = b.x /\ a.y = b.y /\ a.w < b.w
    \/ a.x = b.x /\ a.y = b.y /\ a.w = b.w /\ a.h < b.h

\* the keys after the texture: kind, clip state, submission index
TieBreakBefore(a, b) ==
    IF a.isSprite # b.isSprite THEN a.isSprite
    ELSE IF a.isSprite THEN a.index < b.index
    ELSE LET ga == m_geometryCommands[a.index]
             gb == m_geometryCommands[b.index]
         IN IF ga.hasClipRect # gb.hasClipRect THEN ~ga.hasClipRect
            ELSE IF ga.hasClipRect /\ ga.clipRect # gb.clipRect
                 THEN ClipRectBefore(ga.clipRect, gb.clipRect)
            ELSE a.index < b.index

LatestEndBuilt ==
    lastOp \in {"End", "StrayEnd"} /\ endResult.outcome \in BuiltOutcomes

\* the scratch segments whose indices lie in draw range i
SegmentsIn(i) ==
    {k \in 1..Len(m_vertexScratch) :
        /\ m_drawRanges[i].firstIndex <= m_vertexScratch[k].indexBase
        /\ m_vertexScratch[k].indexBase
              < m_drawRanges[i].firstIndex + m_drawRanges[i].indexCount}

\* texture, layer and clip state of the command behind segment k; the clip
\* state of a command is its clip rect in whole pixels
SegmentState(k) ==
    LET id == m_vertexScratch[k].id
    IN IF m_vertexScratch[k].isSprite
       THEN [texture |-> SpriteOf(id).texture, layer |-> SpriteOf(id).layer,
             useScissor |-> FALSE, scissorRect |-> NoScissor]
       ELSE LET g == GeometryOf(id)
            IN [texture |-> g.texture, layer |-> g.layer,
                useScissor |-> g.hasClipRect,
                scissorRect |->
                   IF g.hasClipRect
                   THEN [left |-> Trunc(g.clipRect.x),
                         top |-> Trunc(g.clipRect.y),
                         right |-> Trunc(g.clipRect.x + g.clipRect.w),
                         bottom |-> Trunc(g.clipRect.y + g.clipRect.h)]
                   ELSE NoScissor]

VerticesBefore(k) ==
    SumOf([i \in 1..(k - 1) |-> m_vertexScratch[i].vertexCount])

\* the index the caller supplied for the geometry command behind segment k
\* (a view is read through its pointer when it is emitted)
InputIndex(k) ==
    LET g == GeometryOf(m_vertexScratch[k].id)
    IN IF g.view THEN callerArrays.indices ELSE g.indices

\* ---------------------------------------------------------------------
\* C23: the topology of a command is preserved: the first vertex of a
\* command is at the number of vertices emitted by the commands before it in
\* sorted order (its base); a sprite emits the indices base, base + 1,
\* base + 2, base, base + 2, base + 3; a geometry command whose input indices
\* are smaller than its vertex count emits every input index increased by
\* its base; hence every such index refers to a vertex of the same command
\* and is smaller than the number of vertices emitted in the frame.
\* ---------------------------------------------------------------------
C23_TopologyPreserved ==
    LatestEndBuilt =>
        \A k \in 1..Len(m_vertexScratch) :
           LET seg == m_vertexScratch[k]
               base == VerticesBefore(k)
           IN /\ seg.vertexBase = base
              /\ IF seg.isSprite
                 THEN /\ seg.indices = << base, base + 1, base + 2,
                                         base, base + 2, base + 3 >>
                      /\ \A n \in 1..Len(seg.indices) :
                            /\ base <= seg.indices[n]
                            /\ seg.indices[n] < base + seg.vertexCount
                            /\ seg.indices[n] < EmittedVertices
                 ELSE InputIndex(k) < seg.vertexCount =>
                         /\ seg.indices = InputIndex(k) + base
                         /\ base <= seg.indices
                         /\ seg.indices < base + seg.vertexCount
                         /\ seg.indices < EmittedVertices

\* End emitted a sprite and, behind it, a geometry command with an in-range
\* input index that is not 0 and another geometry command
C23_Witness ==
    /\ lastOp = "End"
    /\ endResult.outcome = "drawn"
    /\ Len(m_vertexScratch) = 3
    /\ m_vertexScratch[1].isSprite
    /\ ~m_vertexScratch[2].isSprite
    /\ ~m_vertexScratch[3].isSprite
    /\ InputIndex(2) = 1
    /\ m_vertexScratch[2].indices = 5
    /\ m_vertexScratch[3].vertexBase = 8

\* ---------------------------------------------------------------------
\* Vocabulary of the capacity properties
\* ---------------------------------------------------------------------
\* what a call Ensure...Capacity(n) that returned ok may leave, from the
\* capacity cap and the buffer buf, with the given baseline
EnsureLeaves(n, ok, cap, buf, capAfter, bufAfter, baseline) ==
    IF ~ok THEN capAfter = cap /\ bufAfter = buf
    ELSE /\ capAfter >= n
         /\ IF n <= cap /\ buf # 0
            THEN capAfter = cap /\ bufAfter = buf
            ELSE /\ capAfter = Doubled(IF cap = 0 THEN baseline ELSE cap, n)
                 /\ bufAfter = capAfter

\* ---------------------------------------------------------------------
\* C24: EnsureVertexCapacity(n) and EnsureIndexCapacity(n) that return true
\* leave a capacity of at least n: the capacity as it was when n fits and a
\* buffer exists, otherwise the smallest c * 2^k that is at least n, for c
\* the capacity, or the baseline for a capacity of 0, with a buffer of that
\* size; when they return false capacity and buffer are as they were. Init
\* calls them with 1024 vertices and 1536 indices, End with the totals of
\* the frame, the index call only after the vertex call returned true; End
\* uploads no more vertices and indices than the capacities.
\* ---------------------------------------------------------------------
C24_EnsureCapacity ==
    [][ /\ lastOp' = "Init" =>
              \E vok \in BOOLEAN, iok \in BOOLEAN :
                 /\ (phase' = "ready") = (vok /\ iok)
                 /\ EnsureLeaves(InitVertexCount, vok, m_vertexCapacity,
                                 m_vertexBuffer, m_vertexCapacity',
                                 m_vertexBuffer', VertexBaseline)
                 /\ IF vok
                    THEN EnsureLeaves(InitIndexCount, iok, m_indexCapacity,
                                      m_indexBuffer, m_indexCapacity',
                                      m_indexBuffer', IndexBaseline)
                    ELSE UNCHANGED << m_indexCapacity, m_indexBuffer >>
        /\ lastOp' \in {"End", "StrayEnd"} =>
              /\ endResult'.uploadedVertices <= m_vertexCapacity'
              /\ endResult'.uploadedIndices <= m_indexCapacity'
              /\ IF endResult'.outcome \in {"empty", "nothing"}
                 THEN UNCHANGED << m_vertexCapacity, m_vertexBuffer,
                                   m_indexCapacity, m_indexBuffer >>
                 ELSE /\ EnsureLeaves(ExpectedVertices,
                                      endResult'.outcome # "vertexAllocFailed",
                                      m_vertexCapacity, m_vertexBuffer,
                                      m_vertexCapacity', m_vertexBuffer',
                                      VertexBaseline)
                      /\ IF endResult'.outcome = "vertexAllocFailed"
                         THEN UNCHANGED << m_indexCapacity, m_indexBuffer >>
                         ELSE EnsureLeaves(ExpectedIndices,
                                           endResult'.outcome # "indexAllocFailed",
                                           m_indexCapacity, m_indexBuffer,
                                           m_indexCapacity', m_indexBuffer',
                                           IndexBaseline)
      ]_vars

\* one End made both capacities grow by two doublings and uploaded more
\* than the doubled baselines hold
C24_Witness ==
    /\ lastOp = "End"
    /\ endResult.outcome = "drawn"
    /\ frames = 1
    /\ m_vertexCapacity = 4 * VertexBaseline
    /\ m_indexCapacity = 4 * IndexBaseline
    /\ endResult.uploadedVertices > 2 * VertexBaseline
    /\ endResult.uploadedIndices > 2 * IndexBaseline

\* ---------------------------------------------------------------------
\* C25: the sprite, geometry and unified command lists and the draw-range
\* list are frame-scoped: the four lists are empty when Begin returns and
\* empty again when End returns, however End returns.
\* ---------------------------------------------------------------------
C25_ListsAreFrameScoped ==
    lastOp \in {"Begin", "NestedBegin", "End", "StrayEnd"} =>
        /\ m_commands = << >>
        /\ m_geometryCommands = << >>
        /\ m_unifiedCommands = << >>
        /\ m_drawRanges = << >>

\* ---------------------------------------------------------------------
\* Application::Run
\* ---------------------------------------------------------------------
\* positions of the calls named call in the log of the current iteration
CallsOf(call) == {i \in DOMAIN frameLog : frameLog[i].call = call}

\* Run is between two iterations of its loop, or has left the loop
OutsideBody == pc \in {"PumpEvents", "LoopTop", "TimeStep", "AfterLoop", "Returned"}

\* C26: in every iteration of Application::Run batch.Begin is called at most
\* once and batch.End only after it and at most once; every OnRender call
\* and the UI render come after the Begin and before the End; and whenever
\* Run is between two iterations or has left the loop (by a quit event or a
\* breakpoint request), an iteration that called Begin has called End too,
\* so that no frame is left open and the next Begin follows an End.
C26_BeginEndAlternate ==
    /\ Cardinality(CallsOf("Begin")) <= 1
    /\ Cardinality(CallsOf("End")) <= Cardinality(CallsOf("Begin"))
    /\ \A b \in CallsOf("Begin"), e \in CallsOf("End") : b < e
    /\ \A r \in CallsOf("OnRender") \cup CallsOf("UIRender") :
          /\ \E b \in CallsOf("Begin") : b < r
          /\ \A e \in CallsOf("End") : r < e
    /\ OutsideBody =>
          Cardinality(CallsOf("End")) = Cardinality(CallsOf("Begin"))
    /\ pc = "PumpEvents" /\ lastOp = "Run_End" =>
          /\ Cardinality(CallsOf("Begin")) = 1
          /\ Cardinality(CallsOf("OnRender")) = Len(m_layers)
          /\ Cardinality(CallsOf("UIRender")) = 1

\* Run has returned after an iteration that rendered two layers and the
\* user interface.
C26_Witness ==
    /\ pc = "Returned"
    /\ Cardinality(CallsOf("Begin")) = 1
    /\ Cardinality(CallsOf("End")) = 1
    /\ Cardinality(CallsOf("OnRender")) = 2
    /\ Cardinality(CallsOf("UIRender")) = 1

\* n rounds of calls
RECURSIVE Rounds(_, _)
Rounds(n, round) == IF n = 0 THEN << >> ELSE round \o Rounds(n - 1, round)

\* the OnFixedUpdate calls of one round: every entry of m_layers in push order
FixedRoundCalls ==
    [i \in 1..Len(m_layers) |-> [layer |-> m_layers[i], call |-> "OnFixedUpdate"]]

\* the fixed-step phase of the current iteration is over
FixedPhaseOver == pc # "FixedLoop"

\* C30: in every iteration of Application::Run the fixed-step phase runs at
\* most kMaxSubSteps = 8 rounds; the log of the iteration starts with these
\* rounds, each one calling OnFixedUpdate on every entry of the layer list
\* in push order, and holds no OnFixedUpdate call after them (so none after
\* an OnUpdate); the accumulator is never negative and is smaller than one
\* fixed step whenever the phase is over; leaving the phase sets it to 0
\* when 8 rounds were run and keeps it otherwise, and it is then carried
\* unchanged to the next iteration, which adds its scaled frame time to it.
C30_FixedStepPhase ==
    /\ [](/\ subSteps <= kMaxSubSteps
          /\ Len(frameLog) >= subSteps * Len(m_layers)
          /\ SubSeq(frameLog, 1, subSteps * Len(m_layers))
                = Rounds(subSteps, FixedRoundCalls)
          /\ \A i \in DOMAIN frameLog :
                i > subSteps * Len(m_layers) => frameLog[i].call # "OnFixedUpdate"
          /\ accumulator >= 0
          /\ FixedPhaseOver => accumulator < kFixedStep)
    /\ [][/\ pc = "FixedLoop" /\ pc' = "OnUpdate" =>
                accumulator' = IF subSteps = kMaxSubSteps THEN 0 ELSE accumulator
          /\ FixedPhaseOver /\ FixedPhaseOver' => accumulator' = accumulator
          /\ pc = "TimeStep" /\ pc' = "FixedLoop" =>
                accumulator' = accumulator + g_time'.scaledDeltaSeconds]_vars

\* The phase of a frame longer than eight fixed steps has ended after eight
\* rounds on two layers, and the accumulator was reset.
C30_Witness ==
    /\ pc = "OnUpdate"
    /\ lastOp = "FixedDone"
    /\ subSteps = kMaxSubSteps
    /\ Len(m_layers) = 2
    /\ Len(frameLog) = 2 * kMaxSubSteps
    /\ g_time.scaledDeltaSeconds > kMaxSubSteps * kFixedStep + kFixedStep
    /\ accumulator = 0

\* ---------------------------------------------------------------------
\* Scene2D::Render
\* ---------------------------------------------------------------------
\* the entity at position i is active and has a sprite whose texture is
\* set and valid
Renderable(i) ==
    /\ m_entities[i].active
    /\ m_entities[i].id \in DOMAIN m_sprites.m_sparse
    /\ LET spr == m_sprites.m_dense[m_sprites.m_sparse[m_entities[i].id]]
       IN spr.texture # Null /\ srv[spr.texture] # NoSRV

\* no visible rect is given, or the destination rect of entity i meets it
InView(i, visibleRect) ==
    \/ visibleRect = << >>
    \/ Intersects(
           RenderDst(m_entities[i],
                     m_sprites.m_dense[m_sprites.m_sparse[m_entities[i].id]]),
           visibleRect[1])

\* number of the calls named call that a sequence of calls holds for entity i
CallsFor(callSeq, call, i) ==
    Cardinality({k \in DOMAIN callSeq :
                    callSeq[k].call = call /\ callSeq[k].entity = i})

StatsSum(stats) == stats.spritesSubmitted + stats.spritesCulled

\* what Render(visibleRect) calls for every entity
RenderCallsPerEntity(visibleRect) ==
    \A i \in DOMAIN m_entities :
        /\ CallsFor(renderCalls', "Push", i)
              = IF Renderable(i) /\ InView(i, visibleRect) THEN 1 ELSE 0
        /\ CallsFor(renderCalls', "RecordSpriteCulled", i)
              = IF Renderable(i) /\ ~InView(i, visibleRect) THEN 1 ELSE 0

\* C27: Scene2D::Render calls Push exactly once for every active entity
\* that has a sprite with a valid texture and whose destination rect meets
\* the visible rect (or when none is given), RecordSpriteCulled exactly
\* once for every such entity that does not meet it, and nothing for the
\* other entities; spritesSubmitted + spritesCulled grows by the number of
\* active entities with a valid texture.
C27_RenderCounts ==
    [][\A visibleRect \in VisibleRects :
          Render(visibleRect) =>
              /\ RenderCallsPerEntity(visibleRect)
              /\ StatsSum(m_stats')
                    = StatsSum(m_stats)
                      + Cardinality({i \in DOMAIN m_entities : Renderable(i)})]_vars

\* C27 (amended): the calls are as stated; spritesSubmitted + spritesCulled
\* grows by the number of active entities with a valid texture when Render
\* is called inside a frame, and by the number of culled entities only when
\* it is called outside a frame, where Push ignores the call.
C27_RenderCountsInFrame ==
    [][\A visibleRect \in VisibleRects :
          Render(visibleRect) =>
              /\ RenderCallsPerEntity(visibleRect)
              /\ m_isDrawing =>
                    StatsSum(m_stats')
                       = StatsSum(m_stats)
                         + Cardinality({i \in DOMAIN m_entities : Renderable(i)})
              /\ ~m_isDrawing =>
                    /\ m_stats'.spritesSubmitted = m_stats.spritesSubmitted
                    /\ m_stats'.spritesCulled
                          = m_stats.spritesCulled
                            + Cardinality({i \in DOMAIN m_entities :
                                  Renderable(i) /\ ~InView(i, visibleRect)})]_vars

\* Render inside a frame has pushed the first entity and culled the second.
C27_Witness ==
    /\ lastOp = "Render"
    /\ m_isDrawing
    /\ Len(m_entities) = 2
    /\ Len(renderCalls) = 2
    /\ renderCalls[1].call = "Push"
    /\ renderCalls[2].call = "RecordSpriteCulled"
    /\ m_stats.spritesSubmitted = 1
    /\ m_stats.spritesCulled = 1

\* ---------------------------------------------------------------------
\* ComponentStore
\* ---------------------------------------------------------------------
\* the component a store holds for an id that it stores
ValueOf(store, id) == store.m_dense[store.m_sparse[id]]

\* the three containers of a store agree
StoreCoherent(store) ==
    /\ Len(store.m_dense) = Len(store.m_denseEntities)
    /\ Cardinality(DOMAIN store.m_sparse) = Len(store.m_dense)
    /\ \A i, j \in DOMAIN store.m_denseEntities :
          store.m_denseEntities[i] = store.m_denseEntities[j] => i = j
    /\ \A id \in DOMAIN store.m_sparse :
          /\ store.m_sparse[id] \in DOMAIN store.m_denseEntities
          /\ store.m_denseEntities[store.m_sparse[id]] = id

\* C28: after any sequence of Add, Remove and Clear (and of writes through
\* the references handed out) the dense value array, the dense entity array
\* and the sparse map of a ComponentStore have the same size, no id occurs
\* twice in the dense entity array, and the sparse map gives for every
\* stored id the position that holds it; Add of an id that is present
\* leaves the store as it is; Remove(id) removes id and keeps every other
\* id with its value, at its position unless it was the last element.
C28_StoreCoherent ==
    /\ []StoreCoherent(m_sprites)
    /\ [][/\ \A id \in EntityIDs, texture \in SpriteTextures :
                Sprites_Add(id, SpriteRenderer2D(texture))
                /\ id \in DOMAIN m_sprites.m_sparse
                => m_sprites' = m_sprites
          /\ \A id \in EntityIDs :
                Sprites_Remove(id) =>
                    /\ DOMAIN m_sprites'.m_sparse = DOMAIN m_sprites.m_sparse \ {id}
                    /\ \A other \in DOMAIN m_sprites.m_sparse \ {id} :
                          /\ ValueOf(m_sprites', other) = ValueOf(m_sprites, other)
                          /\ \/ m_sprites'.m_sparse[other] = m_sprites.m_sparse[other]
                             \/ m_sprites.m_sparse[other] = Len(m_sprites.m_dense)]_vars

\* The first of three components was removed and the last one has moved
\* into its place.
C28_Witness ==
    /\ lastOp = "Remove"
    /\ sceneArg = 1
    /\ m_sprites.m_denseEntities = << 3, 2 >>
    /\ m_sprites.m_dense[1].texture = "Bad"
    /\ m_sprites.m_dense[2].texture = "A"
    /\ m_sprites.m_sparse[3] = 1

\* ---------------------------------------------------------------------
\* Scene2D: entities and their index
\* ---------------------------------------------------------------------
\* C29: after any sequence of CreateEntity, CreateEntityWithID,
\* DestroyEntity and Clear the id-to-index map is the inverse of the entity
\* array: every entity of the array is indexed by its id at its position,
\* no two entities of the array have the same id, FindEntity(id) returns an
\* entity whose id is id, and FindEntity returns null for an id that no
\* entity of the array has.
C29_IndexIsInverse ==
    /\ \A i \in DOMAIN m_entities :
          /\ m_entities[i].id \in DOMAIN m_entityIndex
          /\ m_entityIndex[m_entities[i].id] = i
    /\ \A i, j \in DOMAIN m_entities :
          m_entities[i].id = m_entities[j].id => i = j
    /\ \A id \in DOMAIN m_entityIndex :
          /\ m_entityIndex[id] \in DOMAIN m_entities
          /\ FindEntity(id)[1].id = id
    /\ \A id \in EntityIDs :
          (\A i \in DOMAIN m_entities : m_entities[i].id # id)
              => FindEntity(id) = << >>

====
